---- MODULE Spec2Model ----
(***************************************************************************)
(* Transaction admission core of the consensus service                     *)
(* (consensus/service/src/validators.rs): the untrusted well-formed check, *)
(* the single-transaction validity check is_valid and the block combiner   *)
(* combine, over a ledger whose queries may fail with a storage error; and *)
(* the attested call of a peer connection                                  *)
(* (connection/src/attested_connection.rs); the connection manager         *)
(* (connection/src/connection_manager.rs); and the simulated network of    *)
(* the consensus tests (consensus/scp/tests/mock_network).                 *)
(***************************************************************************)
EXTENDS Naturals, Sequences, FiniteSets, TLC

(* ------------------------------------------------------------------ *)
(* Bounds of the model.                                                *)
(* ------------------------------------------------------------------ *)
MaxCandidates == 3
MaxElements == 3
MaxBlocks == 3
MaxTombstone == 4

KeyImages == {"k1", "k2"}
PublicKeys == {"p1", "p2"}
CombinePublicKeys == {"p1"}

Fees == 0..1
Tombstones == 0..MaxTombstone

VARIABLES
    tx_contexts,        \* combine: the candidates nominated so far (&[Arc<WellFormedTxContext>])
    max_elements,       \* combine: the bound passed by the caller
    allowed_hashes,     \* combine: the returned Vec<TxHash>
    pc,                 \* position of the caller within the operation under way
    num_blocks,         \* ledger: number of blocks
    ledger_key_images,  \* ledger: key images already spent
    ledger_public_keys, \* ledger: output public keys already published
    fault,              \* ledger: the queries that fail with a storage error
    context,            \* is_valid: the context last checked
    result,             \* is_valid: the TransactionValidationResult last returned
    attested,           \* connection: the flag is_attested() returns
    attested_on_entry,  \* attested_call: is_attested() when the call under way was entered
    calls,              \* attested_call: the number of calls entered on the connection
    attest_result,      \* attested_call: what attest() returned in the call under way
    func_result,        \* attested_call: what func returned in the call under way
    ret,                \* attested_call: what the last call returned
    trace,              \* connection: the attest / func / deattest invocations so far
    num_tx_outs,        \* ledger: number of TxOuts
    highest_indices,    \* well_formed_check: tx_context.highest_indices
    membership_proofs,  \* well_formed_check: what get_tx_out_proof_of_memberships returned
    blocks_read,        \* well_formed_check: what num_blocks() returned
    well_formed,        \* well_formed_check: what the last call returned
    ledger_reads,       \* well_formed_check: the queries of the call under way, each with
                        \* the block count of the ledger when it was made
    succeeded_at,       \* well_formed_check: the block count under which the tx context
                        \* under check first passed, if it has
    given,              \* ConnectionManager::new: the connections passed in (Vec<C>)
    peer_connections,   \* ConnectionManager: the registry behind the Arc<RwLock<..>>
    iteration_order,    \* ConnectionManager: the order in which the HashMap iterates its keys
    handles,            \* ConnectionManager: the manager and its clones, each by the Arc it holds
    readers,            \* ConnectionManager: the number of read guards held on the RwLock
    queries,            \* ConnectionManager: per thread, the query under way or last answered
    mutex,              \* SyncConnection: the thread that holds the connection's mutex, or "free"
    callers,            \* SyncConnection: per thread, its position in its attested call
    acquired,           \* SyncConnection: the calls in the order they took the mutex
    completed,          \* SyncConnection: the calls in the order they released it
    operation,          \* retry: the retryable operation under way
    delays,             \* retry: the retry schedule the caller passed
    retry_iterator,     \* retry: the delays not yet taken from the schedule
    outcomes,           \* retry: what each attempt of the operation returned, in order
    retry_result,       \* retry: what the retryable operation returned
    test_options,       \* build_and_test: values_to_submit and submit_in_parallel
    values,             \* build_and_test: the values generated for submission
    pushed,             \* build_and_test: the iterations of the push loop finished
    node_index,         \* build_and_test: the position in node_ids of the loop under way
    node_ledgers,       \* SCPNetwork: per node, shared_data.ledger (Vec<Vec<String>>)
    sent_values,        \* SCPNetwork: per node, the values send_value has handed it
    checked_ledgers,    \* build_and_test: per node, the ledger read for the value check
    first_node_ledger,  \* build_and_test: the first node's ledger read for the comparison
    other_node_ledgers, \* build_and_test: per node, other_node_ledger as read
    panic,              \* build_and_test: the panic message, "" while there is none
    tombstone_checks,   \* the tombstone checks of one context so far, each with the
                        \* current_block_index it was made under
    mutexes,            \* SyncConnection: per connection of the registry, the thread that
                        \* holds its mutex, or "free"
    peers,              \* SCPNetwork: per node, node_config.peers
    nodes_map_lock,     \* SCPNetwork: the holder of the nodes_map mutex, or "free"
    inboxes,            \* SCPNetwork: per node, what send_msg and send_stop have handed it
    processed,          \* SCPNetwork: per node, how much of its inbox its thread has taken
    node_threads,       \* SCPNetwork: per node, the position of its thread
    broadcasts,         \* SCPNetwork: the senders of the broadcasts begun, in order
    stop_all            \* SCPNetwork: the position of stop_all

combine_vars == <<tx_contexts, max_elements, allowed_hashes>>
ledger_vars == <<num_blocks, ledger_key_images, ledger_public_keys>>
valid_vars == <<fault, context, result>>
conn_vars == <<attested, attested_on_entry, calls, attest_result, func_result, ret, trace>>
check_vars ==
    <<num_tx_outs, highest_indices, membership_proofs, blocks_read, well_formed, ledger_reads,
      succeeded_at>>

manager_vars == <<given, peer_connections, iteration_order, handles, readers, queries>>
lock_vars == <<mutex, callers, acquired, completed>>
retry_vars == <<operation, delays, retry_iterator, outcomes, retry_result>>

scp_vars == <<peers, nodes_map_lock, inboxes, processed, node_threads, broadcasts, stop_all>>

network_vars ==
    <<test_options, values, pushed, node_index, node_ledgers, sent_values,
      checked_ledgers, first_node_ledger, other_node_ledgers, panic>>

\* The state of the admission core and of one connection.
core_vars == <<combine_vars, ledger_vars, valid_vars, conn_vars, check_vars>>

\* The state around them: the peer substrate, the simulated network and the
\* history of the tombstone checks.
substrate_vars ==
    <<manager_vars, lock_vars, retry_vars, network_vars, tombstone_checks, mutexes, scp_vars>>

vars == <<core_vars, pc, substrate_vars>>

NoFault == [num_blocks |-> FALSE, key_images |-> {}, public_keys |-> {}]

\* The connection before its first attested call.
InitConnection ==
    /\ attested = FALSE
    /\ attested_on_entry = FALSE
    /\ calls = 0
    /\ attest_result = [ok |-> FALSE, val |-> "None",
                        err |-> [from |-> "None", kind |-> "None", status |-> "None"]]
    /\ func_result = [ok |-> FALSE, val |-> "None", err |-> [kind |-> "None", status |-> "None"]]
    /\ ret = [ok |-> FALSE, val |-> "None",
              err |-> [from |-> "None", kind |-> "None", status |-> "None"]]
    /\ trace = <<>>

\* The untrusted well-formed check before its first call, on a ledger without
\* TxOuts.
InitCheck ==
    /\ num_tx_outs = 0
    /\ highest_indices = <<>>
    /\ membership_proofs = [ok |-> FALSE, val |-> <<>>]
    /\ blocks_read = [ok |-> FALSE, val |-> 0]
    /\ well_formed = [status |-> "None", current_block_index |-> 0, membership_proofs |-> <<>>]
    /\ ledger_reads = <<>>
    /\ succeeded_at = [ok |-> FALSE, num_blocks |-> 0]

\* The threads that call into the connection manager and the connections.
Threads == {"t1", "t2"}

\* A thread that has not called the manager yet.
NoQuery == [at |-> "idle", handle |-> 0, op |-> "none", id |-> "none",
            ids |-> <<>>, conns |-> <<>>, len |-> 0, flag |-> FALSE]

\* No manager has been constructed.
InitManager ==
    /\ given = <<>>
    /\ peer_connections = {}
    /\ iteration_order = <<>>
    /\ handles = <<>>
    /\ readers = 0
    /\ queries = [t \in Threads |-> NoQuery]

\* No thread holds the connection's mutex or waits for it.
InitLock ==
    /\ mutex = "free"
    /\ callers = [t \in Threads |-> [at |-> "idle", call |-> 0]]
    /\ acquired = <<>>
    /\ completed = <<>>

\* No retryable operation has been called.
InitRetry ==
    /\ operation = "none"
    /\ delays = <<>>
    /\ retry_iterator = <<>>
    /\ outcomes = <<>>
    /\ retry_result = "none"

\* The nodes of the simulated network, in the order of network_config.nodes.
node_ids == <<"n1", "n2">>

NodeIDs == {node_ids[k] : k \in 1..Len(node_ids)}

\* No simulation has been built.
InitNetwork ==
    /\ test_options = [values_to_submit |-> 0, submit_in_parallel |-> FALSE]
    /\ values = <<>>
    /\ pushed = 0
    /\ node_index = 1
    /\ node_ledgers = [n \in NodeIDs |-> <<>>]
    /\ sent_values = [n \in NodeIDs |-> <<>>]
    /\ checked_ledgers = [n \in NodeIDs |-> <<>>]
    /\ first_node_ledger = <<>>
    /\ other_node_ledgers = [n \in NodeIDs |-> <<>>]
    /\ panic = ""

\* The nodes of the network that has been built.
ScpNodes == DOMAIN peers

\* Msg<String> by its sender and its number; what send_stop hands a node.
NoMsg == [sender |-> "none", seq |-> 0]
StopTrigger == [sender |-> "stop", seq |-> 0]

\* A thread per node that runs its loop, nothing sent yet, stop_all not
\* called.
InitThreads(nodes) ==
    /\ nodes_map_lock = "free"
    /\ inboxes = [n \in nodes |-> <<>>]
    /\ processed = [n \in nodes |-> 0]
    /\ node_threads = [n \in nodes |-> [at |-> "running", msg |-> NoMsg, remaining |-> {}]]
    /\ broadcasts = <<>>
    /\ stop_all = [at |-> "idle", remaining |-> {}, node_ids |-> <<>>, joined |-> {}]

\* No network of broadcasting nodes has been built.
InitScp == InitThreads({}) /\ peers = <<>>

InitSubstrate ==
    /\ InitManager
    /\ InitLock
    /\ InitRetry
    /\ InitNetwork
    /\ tombstone_checks = <<>>
    /\ mutexes = <<>>
    /\ InitScp

(* ------------------------------------------------------------------ *)
(* WellFormedTxContext: the fields the untrusted code reads.           *)
(* ------------------------------------------------------------------ *)
WellFormedTxContext ==
    [fee : Fees, tombstone_block : Tombstones,
     key_images : SUBSET KeyImages, output_public_keys : SUBSET PublicKeys]

NoContext == [fee |-> 0, tombstone_block |-> 0, key_images |-> {}, output_public_keys |-> {}]

\* The position of each key image and public key in the code of a set.
KeyImagesCode(s) ==
    (IF "k1" \in s THEN 1 ELSE 0) + (IF "k2" \in s THEN 2 ELSE 0)

PublicKeysCode(s) ==
    (IF "p1" \in s THEN 1 ELSE 0) + (IF "p2" \in s THEN 2 ELSE 0)

\* tx_hash(): the digest of the transaction the context was made from. A digest
\* is a function of the transaction's content and distinguishes transactions
\* that differ in any field: an injective code of the fields.
tx_hash(c) ==
    ((KeyImagesCode(c.key_images) * 4 + PublicKeysCode(c.output_public_keys))
        * (MaxTombstone + 2) + c.tombstone_block) * 4 + c.fee

(* ------------------------------------------------------------------ *)
(* combine                                                             *)
(* ------------------------------------------------------------------ *)

\* Ord for WellFormedTxContext: a sorts strictly before b.
\* Fee descending, ties by tx_hash ascending.
cmp_less(a, b) ==
    IF a.fee # b.fee THEN a.fee > b.fee ELSE tx_hash(a) < tx_hash(b)

\* sort_insert with the comparison dropped: the candidate goes to the front.
sort_insert_front(c, sorted) == <<c>> \o sorted

\* One insertion of a stable sort: c goes after every element that does not
\* sort strictly after it.
RECURSIVE sort_insert(_, _)
sort_insert(c, sorted) ==
    IF sorted = <<>> THEN <<c>>
    ELSE IF cmp_less(c, Head(sorted)) THEN <<c>> \o sorted
    ELSE <<Head(sorted)>> \o sort_insert(c, Tail(sorted))

\* candidates.sort(): a stable sort by cmp.
RECURSIVE sort_from(_, _)
sort_from(seq, sorted) ==
    IF seq = <<>> THEN sorted
    ELSE sort_from(Tail(seq), sort_insert(Head(seq), sorted))

\* The sort with the order turned round: lowest fee first.
sort_reversed(seq) ==
    LET sorted == sort_from(seq, <<>>)
    IN [i \in 1..Len(sorted) |-> sorted[Len(sorted) + 1 - i]]

sort(seq) == sort_from(seq, <<>>)

\* combine_loop without the check of the output public keys.
RECURSIVE combine_loop_no_public_key_check(_, _, _, _, _, _)
combine_loop_no_public_key_check(candidates, i, max, allowed, used_key_images, used_output_public_keys) ==
    IF i > Len(candidates) THEN allowed
    ELSE IF Len(allowed) >= max THEN allowed
    ELSE LET candidate == candidates[i] IN
        IF used_key_images \cap candidate.key_images # {}
        THEN combine_loop_no_public_key_check(candidates, i + 1, max, allowed,
                          used_key_images, used_output_public_keys)
        ELSE combine_loop_no_public_key_check(candidates, i + 1, max,
                          Append(allowed, tx_hash(candidate)),
                          used_key_images \cup candidate.key_images,
                          used_output_public_keys \cup candidate.output_public_keys)

\* combine_loop with the size check after the push: one element too many.
RECURSIVE combine_loop_late_break(_, _, _, _, _, _)
combine_loop_late_break(candidates, i, max, allowed, used_key_images, used_output_public_keys) ==
    IF i > Len(candidates) THEN allowed
    ELSE IF Len(allowed) > max THEN allowed
    ELSE LET candidate == candidates[i] IN
        IF used_key_images \cap candidate.key_images # {}
        THEN combine_loop_late_break(candidates, i + 1, max, allowed,
                          used_key_images, used_output_public_keys)
        ELSE IF used_output_public_keys \cap candidate.output_public_keys # {}
        THEN combine_loop_late_break(candidates, i + 1, max, allowed,
                          used_key_images, used_output_public_keys)
        ELSE combine_loop_late_break(candidates, i + 1, max,
                          Append(allowed, tx_hash(candidate)),
                          used_key_images \cup candidate.key_images,
                          used_output_public_keys \cup candidate.output_public_keys)

\* combine_loop that stops at the first conflict instead of going on.
RECURSIVE combine_loop_break_on_conflict(_, _, _, _, _, _)
combine_loop_break_on_conflict(candidates, i, max, allowed, used_key_images, used_output_public_keys) ==
    IF i > Len(candidates) THEN allowed
    ELSE IF Len(allowed) >= max THEN allowed
    ELSE LET candidate == candidates[i] IN
        IF used_key_images \cap candidate.key_images # {} THEN allowed
        ELSE IF used_output_public_keys \cap candidate.output_public_keys # {} THEN allowed
        ELSE combine_loop_break_on_conflict(candidates, i + 1, max,
                          Append(allowed, tx_hash(candidate)),
                          used_key_images \cup candidate.key_images,
                          used_output_public_keys \cup candidate.output_public_keys)

\* combine_loop that stops one element short of the bound.
RECURSIVE combine_loop_early_break(_, _, _, _, _, _)
combine_loop_early_break(candidates, i, max, allowed, used_key_images, used_output_public_keys) ==
    IF i > Len(candidates) THEN allowed
    ELSE IF Len(allowed) + 1 >= max THEN allowed
    ELSE LET candidate == candidates[i] IN
        IF used_key_images \cap candidate.key_images # {}
        THEN combine_loop_early_break(candidates, i + 1, max, allowed,
                          used_key_images, used_output_public_keys)
        ELSE IF used_output_public_keys \cap candidate.output_public_keys # {}
        THEN combine_loop_early_break(candidates, i + 1, max, allowed,
                          used_key_images, used_output_public_keys)
        ELSE combine_loop_early_break(candidates, i + 1, max,
                          Append(allowed, tx_hash(candidate)),
                          used_key_images \cup candidate.key_images,
                          used_output_public_keys \cup candidate.output_public_keys)

\* The loop over the sorted candidates, from the candidate at position i.
RECURSIVE combine_loop(_, _, _, _, _, _)
combine_loop(candidates, i, max, allowed, used_key_images, used_output_public_keys) ==
    IF i > Len(candidates) THEN allowed
    ELSE IF Len(allowed) >= max THEN allowed
    ELSE LET candidate == candidates[i] IN
        IF used_key_images \cap candidate.key_images # {}
        THEN combine_loop(candidates, i + 1, max, allowed,
                          used_key_images, used_output_public_keys)
        ELSE IF used_output_public_keys \cap candidate.output_public_keys # {}
        THEN combine_loop(candidates, i + 1, max, allowed,
                          used_key_images, used_output_public_keys)
        ELSE combine_loop(candidates, i + 1, max,
                          Append(allowed, tx_hash(candidate)),
                          used_key_images \cup candidate.key_images,
                          used_output_public_keys \cup candidate.output_public_keys)

\* combine without the sort: the candidates are taken in nomination order.
combine_unsorted(contexts, max) == combine_loop(contexts, 1, max, <<>>, {}, {})

\* A candidate none of whose key images and output public keys is in the
\* ledger.
not_in_ledger(c) ==
    /\ c.key_images \cap ledger_key_images = {}
    /\ c.output_public_keys \cap ledger_public_keys = {}

\* combine with the candidates checked against the ledger first.
combine_revalidating(contexts, max) ==
    combine_loop(sort(SelectSeq(contexts, not_in_ledger)), 1, max, <<>>, {}, {})

combine(contexts, max) == combine_loop(sort(contexts), 1, max, <<>>, {}, {})

\* The candidates a caller may nominate: the tombstone block is not read by
\* combine, so one value stands for all.
CombineCandidates ==
    {c \in WellFormedTxContext :
        /\ c.tombstone_block = MaxTombstone
        /\ c.output_public_keys \subseteq CombinePublicKeys}

InitCombine ==
    /\ tx_contexts = <<>>
    /\ max_elements = 0
    /\ allowed_hashes = <<>>
    /\ pc = "nominating"
    /\ num_blocks = 1
    /\ ledger_key_images = {}
    /\ ledger_public_keys = {}
    /\ fault = NoFault
    /\ context = NoContext
    /\ result = "None"
    /\ InitConnection
    /\ InitCheck
    /\ InitSubstrate

\* The consensus loop nominates one more candidate.
Nominate ==
    /\ pc = "nominating"
    /\ Len(tx_contexts) < MaxCandidates
    /\ \E c \in CombineCandidates : tx_contexts' = Append(tx_contexts, c)
    /\ UNCHANGED <<max_elements, allowed_hashes, pc, ledger_vars, valid_vars, conn_vars, check_vars, substrate_vars>>

\* The caller combines the nominated candidates.
Combine ==
    /\ pc = "nominating"
    /\ \E max \in 0..MaxElements :
        /\ max_elements' = max
        /\ allowed_hashes' = combine(tx_contexts, max)
    /\ pc' = "combined"
    /\ UNCHANGED <<tx_contexts, ledger_vars, valid_vars, conn_vars, check_vars, substrate_vars>>

NextCombine == Nominate \/ Combine

SpecCombine == InitCombine /\ [][NextCombine]_vars

(* ------------------------------------------------------------------ *)
(* Properties of combine                                               *)
(* ------------------------------------------------------------------ *)
Min(a, b) == IF a <= b THEN a ELSE b

\* The nominated candidate a returned hash belongs to.
candidate_of(h) ==
    LET i == CHOOSE n \in 1..Len(tx_contexts) : tx_hash(tx_contexts[n]) = h
    IN tx_contexts[i]

\* Every reordering of a sequence.
permutations_of(seq) ==
    {[i \in 1..Len(seq) |-> seq[f[i]]] : f \in Permutations(1..Len(seq))}

\* Some candidate was left out although the bound was not reached.
SomeCandidateSkipped ==
    /\ pc = "combined"
    /\ Len(allowed_hashes) < Min(max_elements, Len(tx_contexts))

\* C1: no two transactions accepted by combine share a key image, and no two
\* share an output public key: the candidates at any two distinct positions of
\* the output have disjoint key-image sets and disjoint output-public-key sets.
C1_IntraBlockDisjoint ==
    pc = "combined" =>
        \A i, j \in 1..Len(allowed_hashes) :
            i # j =>
                /\ candidate_of(allowed_hashes[i]).key_images
                        \cap candidate_of(allowed_hashes[j]).key_images = {}
                /\ candidate_of(allowed_hashes[i]).output_public_keys
                        \cap candidate_of(allowed_hashes[j]).output_public_keys = {}

\* Two candidates were accepted and a third, sharing an output public key with
\* an accepted one but no key image, was left out.
C1_Witness ==
    /\ SomeCandidateSkipped
    /\ Len(allowed_hashes) >= 2
    /\ \E n \in 1..Len(tx_contexts) :
        /\ \A i \in 1..Len(allowed_hashes) : allowed_hashes[i] # tx_hash(tx_contexts[n])
        /\ tx_contexts[n].output_public_keys # {}
        /\ \A i \in 1..Len(allowed_hashes) :
              candidate_of(allowed_hashes[i]).key_images
                  \cap tx_contexts[n].key_images = {}

\* The listing of a multiset of candidates in ascending tx_hash order. Every
\* candidate sequence is a reordering of exactly one such listing.
AscendingListing ==
    \A i, j \in 1..Len(tx_contexts) :
        i < j => tx_hash(tx_contexts[i]) <= tx_hash(tx_contexts[j])

\* C2: combine is invariant under permutation of its input: for every multiset
\* of candidates (given by its ascending listing) and every bound, every
\* reordering of the candidates yields the same ordered list of hashes, so any
\* two orders of nomination of the same candidates give the same output.
C2_PermutationInvariant ==
    (pc = "combined" /\ AscendingListing) =>
        \A p \in permutations_of(tx_contexts) :
            combine(p, max_elements) = allowed_hashes

\* Three distinct candidates whose sort order differs from the listing, one of
\* them left out for a conflict and two accepted.
C2_Witness ==
    /\ SomeCandidateSkipped
    /\ AscendingListing
    /\ Len(tx_contexts) = 3
    /\ Len(allowed_hashes) = 2
    /\ sort(tx_contexts) # tx_contexts
    /\ \A i, j \in 1..3 : i # j => tx_contexts[i] # tx_contexts[j]

\* C39: the list returned by combine holds no tx_hash twice, whatever was
\* nominated: the same context more than once, and contexts with no key
\* image and no output public key, included.
C39_NoHashTwice ==
    pc = "combined" =>
        \A i, j \in 1..Len(allowed_hashes) :
            i # j => allowed_hashes[i] # allowed_hashes[j]

\* C9: the output of combine is no longer than the bound and no longer than
\* the input; an empty input and a bound of 0 give an empty output.
C9_Bounded ==
    pc = "combined" =>
        /\ Len(allowed_hashes) <= Min(max_elements, Len(tx_contexts))
        /\ (tx_contexts = <<>> => allowed_hashes = <<>>)
        /\ (max_elements = 0 => allowed_hashes = <<>>)

\* The bound cut the output short: more conflict-free candidates than the
\* bound, and exactly the bound returned.
C9_Witness ==
    /\ pc = "combined"
    /\ max_elements = 2
    /\ Len(tx_contexts) = 3
    /\ Len(combine(tx_contexts, 3)) = 3
    /\ Len(allowed_hashes) = 2

\* C10: the returned hashes are in the sort order of the contexts: of any two
\* output positions i < j, the candidate at i has the higher fee, or the same
\* fee and a tx_hash that is not greater.
C10_SortOrder ==
    pc = "combined" =>
        \A i, j \in 1..Len(allowed_hashes) :
            i < j =>
                LET a == candidate_of(allowed_hashes[i])
                    b == candidate_of(allowed_hashes[j])
                IN \/ a.fee > b.fee
                   \/ a.fee = b.fee /\ allowed_hashes[i] <= allowed_hashes[j]

\* Three accepted candidates, nominated lowest fee first, two of them with
\* the same fee and different hashes.
C10_Witness ==
    /\ pc = "combined"
    /\ Len(allowed_hashes) = 3
    /\ tx_contexts[1].fee < tx_contexts[3].fee
    /\ tx_contexts[2].fee = tx_contexts[3].fee
    /\ tx_hash(tx_contexts[2]) > tx_hash(tx_contexts[3])

\* A sequence without its element at position i.
without(seq, i) == SubSeq(seq, 1, i - 1) \o SubSeq(seq, i + 1, Len(seq))

\* The hash h is in the list of hashes out.
is_in(h, out) == \E n \in 1..Len(out) : out[n] = h

\* Two candidates share a key image or an output public key.
conflict(a, b) ==
    \/ a.key_images \cap b.key_images # {}
    \/ a.output_public_keys \cap b.output_public_keys # {}

\* The candidate at position j is left out, and is accepted once the accepted
\* candidate at position i is taken out of the input.
promoted_by_removal(i, j) ==
    /\ i # j
    /\ is_in(tx_hash(tx_contexts[i]), allowed_hashes)
    /\ ~is_in(tx_hash(tx_contexts[j]), allowed_hashes)
    /\ is_in(tx_hash(tx_contexts[j]), combine(without(tx_contexts, i), max_elements))

\* C11: fee monotonicity: whenever taking an accepted candidate a out of the
\* input makes combine accept a candidate b that it left out, b's fee is not
\* higher than a's.
C11_FeeMonotone ==
    pc = "combined" =>
        \A i \in 1..Len(tx_contexts) :
            is_in(tx_hash(tx_contexts[i]), allowed_hashes) =>
                LET promoted == combine(without(tx_contexts, i), max_elements) IN
                \A j \in 1..Len(tx_contexts) :
                    (/\ j # i
                     /\ ~is_in(tx_hash(tx_contexts[j]), allowed_hashes)
                     /\ is_in(tx_hash(tx_contexts[j]), promoted))
                        => tx_contexts[j].fee <= tx_contexts[i].fee

\* A candidate left out for a conflict with an accepted candidate of a higher
\* fee is accepted once that candidate is taken out, with the bound not reached.
C11_Witness ==
    /\ pc = "combined"
    /\ max_elements = 3
    /\ \E i, j \in 1..Len(tx_contexts) :
        /\ promoted_by_removal(i, j)
        /\ conflict(tx_contexts[i], tx_contexts[j])
        /\ tx_contexts[j].fee < tx_contexts[i].fee

\* The nominated candidates that hold the key image k / the public key p.
holders_of_key_image(k) ==
    {tx_contexts[n] : n \in {m \in 1..Len(tx_contexts) : k \in tx_contexts[m].key_images}}

holders_of_public_key(p) ==
    {tx_contexts[n] : n \in {m \in 1..Len(tx_contexts) : p \in tx_contexts[m].output_public_keys}}

\* The nominated candidates that combine accepted.
accepted_candidates ==
    {tx_contexts[n] : n \in {m \in 1..Len(tx_contexts) :
                                is_in(tx_hash(tx_contexts[m]), allowed_hashes)}}

\* The candidate c conflicts with a candidate of accepted that sorts before it.
conflicts_with_earlier_accepted(c, accepted) ==
    \E a \in accepted : cmp_less(a, c) /\ conflict(a, c)

\* Of the candidates in group, at most one is accepted, and it is the first of
\* the group in the sort order unless that one conflicts with an accepted
\* candidate sorting before it.
first_of_group_wins(group, accepted) ==
    group # {} =>
        LET first == CHOOSE f \in group : \A g \in group : ~cmp_less(g, f) IN
        /\ Cardinality({n \in 1..Len(allowed_hashes) :
                \E g \in group : tx_hash(g) = allowed_hashes[n]}) <= 1
        /\ (\E g \in group : g # first /\ g \in accepted)
              => conflicts_with_earlier_accepted(first, accepted)
        /\ (/\ Len(allowed_hashes) < max_elements
            /\ ~conflicts_with_earlier_accepted(first, accepted))
              => first \in accepted

\* The candidate at position n shares nothing with the candidate at any other
\* position.
unrelated(n) ==
    \A m \in 1..Len(tx_contexts) : m # n => ~conflict(tx_contexts[n], tx_contexts[m])

\* C12: of the candidates that share a key image (or an output public key)
\* combine accepts at most one, and it is the first of them in the sort order
\* unless that one conflicts with an earlier accepted candidate; a candidate
\* unrelated to every other is accepted while the bound is not reached.
C12_ConflictResolution ==
    pc = "combined" =>
        LET accepted == accepted_candidates IN
        /\ \A k \in KeyImages : first_of_group_wins(holders_of_key_image(k), accepted)
        /\ \A p \in PublicKeys : first_of_group_wins(holders_of_public_key(p), accepted)
        /\ \A n \in 1..Len(tx_contexts) :
              (unrelated(n) /\ Len(allowed_hashes) < max_elements)
                  => is_in(tx_hash(tx_contexts[n]), allowed_hashes)

\* t1 (fee 0) and t2 (fee 1) publish the same output public key, t3 (fee 0) is
\* unrelated: t2 and t3 are accepted, in that order.
C12_Witness ==
    /\ pc = "combined"
    /\ max_elements = 3
    /\ Len(tx_contexts) = 3
    /\ tx_contexts[1].fee = 0 /\ tx_contexts[2].fee = 1 /\ tx_contexts[3].fee = 0
    /\ tx_contexts[1].output_public_keys = {"p1"}
    /\ tx_contexts[2].output_public_keys = {"p1"}
    /\ tx_contexts[1].key_images \cap tx_contexts[2].key_images = {}
    /\ unrelated(3)
    /\ allowed_hashes = <<tx_hash(tx_contexts[2]), tx_hash(tx_contexts[3])>>

\* How often the hash h occurs in a list of hashes / among the candidates.
occurrences(h, out) == Cardinality({n \in 1..Len(out) : out[n] = h})

nominations(h) ==
    Cardinality({n \in 1..Len(tx_contexts) : tx_hash(tx_contexts[n]) = h})

\* max_elements hashes were already accepted when the omitted candidate c was
\* reached: that many accepted hashes belong to candidates not sorting after c.
bound_reached_at(c) ==
    \/ max_elements = 0
    \/ /\ Len(allowed_hashes) = max_elements
       /\ \A n \in 1..Len(allowed_hashes) : ~cmp_less(c, candidate_of(allowed_hashes[n]))

\* c shares a key with an accepted candidate that does not sort after it
\* (an accepted earlier nomination of c itself included).
conflicts_with_accepted_before(c, accepted) ==
    \E a \in accepted : ~cmp_less(c, a) /\ conflict(a, c)

\* No two nominated candidates share a key image or an output public key.
PairwiseDisjoint ==
    \A m, n \in 1..Len(tx_contexts) :
        m # n => ~conflict(tx_contexts[m], tx_contexts[n])

\* C13: combine omits a candidate only when max_elements hashes were already
\* accepted on reaching it, or when it shares a key image or output public key
\* with a candidate accepted earlier in the sort order. With pairwise disjoint
\* candidates the output has exactly min(N, |S|) hashes, all from the input:
\* those of the first min(N, |S|) candidates of the sort order.
C13_OmittedOnlyForBoundOrConflict ==
    pc = "combined" =>
        LET accepted == accepted_candidates IN
        /\ \A n \in 1..Len(tx_contexts) :
              LET c == tx_contexts[n] IN
              occurrences(tx_hash(c), allowed_hashes) < nominations(tx_hash(c))
                  => bound_reached_at(c) \/ conflicts_with_accepted_before(c, accepted)
        /\ PairwiseDisjoint =>
              /\ Len(allowed_hashes) = Min(max_elements, Len(tx_contexts))
              /\ \A n \in 1..Len(allowed_hashes) : nominations(allowed_hashes[n]) >= 1
              /\ \A n \in 1..Len(tx_contexts) :
                    ~is_in(tx_hash(tx_contexts[n]), allowed_hashes)
                        => \A a \in accepted : ~cmp_less(tx_contexts[n], a)

\* Three candidates of fee 0 with pairwise disjoint, non-empty keys and a bound
\* of two: exactly two hashes are returned.
C13_Witness ==
    /\ pc = "combined"
    /\ max_elements = 2
    /\ Len(tx_contexts) = 3
    /\ PairwiseDisjoint
    /\ \A n \in 1..3 :
          /\ tx_contexts[n].fee = 0
          /\ tx_contexts[n].key_images \cup tx_contexts[n].output_public_keys # {}
    /\ Len(allowed_hashes) = 2

(* ------------------------------------------------------------------ *)
(* The ledger view: every query may fail with a storage error.         *)
(* ------------------------------------------------------------------ *)
Ok(v) == [ok |-> TRUE, val |-> v]
Err == [ok |-> FALSE, val |-> "storage error"]

\* Result::unwrap_or
unwrap_or(r, default) == IF r.ok THEN r.val ELSE default

\* The patterns of storage errors: the queries that fail during one call.
Faults ==
    [num_blocks : BOOLEAN, key_images : SUBSET KeyImages, public_keys : SUBSET PublicKeys]

ledger_num_blocks(f) == IF f.num_blocks THEN Err ELSE Ok(num_blocks)

contains_key_image(k, f) ==
    IF k \in f.key_images THEN Err ELSE Ok(k \in ledger_key_images)

contains_tx_out_public_key(p, f) ==
    IF p \in f.public_keys THEN Err ELSE Ok(p \in ledger_public_keys)

(* ------------------------------------------------------------------ *)
(* is_valid                                                            *)
(* ------------------------------------------------------------------ *)

\* A tombstone check that takes the tombstone block as a floor.
validate_tombstone_floor(current_block_index, tombstone_block) == IF current_block_index < tombstone_block THEN "TombstoneBlockExceeded" ELSE "Ok"

\* validate_tombstone: the transaction has expired when the current block
\* count has reached its tombstone block.
validate_tombstone(current_block_index, tombstone_block) ==
    IF current_block_index >= tombstone_block THEN "TombstoneBlockExceeded" ELSE "Ok"

\* key_images_spent with a storage error read as "not spent".
key_images_spent_unwrap_false(c, f) ==
    \E key_image \in c.key_images : unwrap_or(contains_key_image(key_image, f), FALSE)

\* key_images.iter().any(|key_image| contains_key_image(key_image).unwrap_or(true))
key_images_spent(c, f) ==
    \E key_image \in c.key_images : unwrap_or(contains_key_image(key_image, f), TRUE)

\* contains_existing_public_key with a storage error read as "not present".
contains_existing_public_key_unwrap_false(c, f) ==
    \E public_key \in c.output_public_keys :
        unwrap_or(contains_tx_out_public_key(public_key, f), FALSE)

\* output_public_keys().iter().any(|public_key|
\*     contains_tx_out_public_key(public_key).unwrap_or(true))
contains_existing_public_key(c, f) ==
    \E public_key \in c.output_public_keys :
        unwrap_or(contains_tx_out_public_key(public_key, f), TRUE)

\* is_valid with the tombstone block taken as the last block of validity.
is_valid_tombstone_late(c, f) ==
    LET current_block_index == ledger_num_blocks(f) IN
    IF ~current_block_index.ok THEN "LedgerError"
    ELSE IF validate_tombstone(current_block_index.val, c.tombstone_block + 1) # "Ok"
    THEN "TombstoneBlockExceeded"
    ELSE IF key_images_spent(c, f) THEN "ContainsSpentKeyImage"
    ELSE IF contains_existing_public_key(c, f) THEN "ContainsExistingOutputPublicKey"
    ELSE "Ok"

\* is_valid with the tombstone checked against the index of the next block.
is_valid_tombstone_early(c, f) ==
    LET current_block_index == ledger_num_blocks(f) IN
    IF ~current_block_index.ok THEN "LedgerError"
    ELSE IF validate_tombstone(current_block_index.val + 1, c.tombstone_block) # "Ok"
    THEN "TombstoneBlockExceeded"
    ELSE IF key_images_spent(c, f) THEN "ContainsSpentKeyImage"
    ELSE IF contains_existing_public_key(c, f) THEN "ContainsExistingOutputPublicKey"
    ELSE "Ok"

\* is_valid with a storage error of contains_key_image propagated by `?`.
is_valid_key_image_error_propagated(c, f) ==
    LET current_block_index == ledger_num_blocks(f) IN
    IF ~current_block_index.ok THEN "LedgerError"
    ELSE IF validate_tombstone(current_block_index.val, c.tombstone_block) # "Ok"
    THEN "TombstoneBlockExceeded"
    ELSE IF \E key_image \in c.key_images : ~contains_key_image(key_image, f).ok
    THEN "LedgerError"
    ELSE IF key_images_spent(c, f) THEN "ContainsSpentKeyImage"
    ELSE IF contains_existing_public_key(c, f) THEN "ContainsExistingOutputPublicKey"
    ELSE "Ok"

\* is_valid with the key images checked before the tombstone block.
is_valid_key_images_first(c, f) ==
    LET current_block_index == ledger_num_blocks(f) IN
    IF ~current_block_index.ok THEN "LedgerError"
    ELSE IF key_images_spent(c, f) THEN "ContainsSpentKeyImage"
    ELSE IF validate_tombstone(current_block_index.val, c.tombstone_block) # "Ok"
    THEN "TombstoneBlockExceeded"
    ELSE IF contains_existing_public_key(c, f) THEN "ContainsExistingOutputPublicKey"
    ELSE "Ok"

\* is_valid(context) on the current ledger, under the storage errors f.
is_valid(c, f) ==
    LET current_block_index == ledger_num_blocks(f) IN
    IF ~current_block_index.ok THEN "LedgerError"
    ELSE IF validate_tombstone(current_block_index.val, c.tombstone_block) # "Ok"
    THEN "TombstoneBlockExceeded"
    ELSE IF key_images_spent(c, f) THEN "ContainsSpentKeyImage"
    ELSE IF contains_existing_public_key(c, f) THEN "ContainsExistingOutputPublicKey"
    ELSE "Ok"

\* The contexts is_valid is called with: the fee is not read by is_valid, so
\* one value stands for all.
IsValidContexts == {c \in WellFormedTxContext : c.fee = 0}

InitIsValid ==
    /\ num_blocks = 0
    /\ ledger_key_images = {}
    /\ ledger_public_keys = {}
    /\ fault = NoFault
    /\ context = NoContext
    /\ result = "None"
    /\ pc = "idle"
    /\ tx_contexts = <<>>
    /\ max_elements = 0
    /\ allowed_hashes = <<>>
    /\ InitConnection
    /\ InitCheck
    /\ InitSubstrate

\* A block is appended to the ledger: it spends key images and publishes
\* output public keys that the ledger does not hold yet.
AppendBlock ==
    /\ num_blocks < MaxBlocks
    /\ num_blocks' = num_blocks + 1
    /\ \E spent \in SUBSET (KeyImages \ ledger_key_images) :
           ledger_key_images' = ledger_key_images \cup spent
    /\ \E published \in SUBSET (PublicKeys \ ledger_public_keys) :
           ledger_public_keys' = ledger_public_keys \cup published
    /\ fault' = NoFault
    /\ context' = NoContext
    /\ result' = "None"
    /\ pc' = "idle"
    /\ UNCHANGED <<combine_vars, conn_vars, check_vars, substrate_vars>>

\* One call of is_valid on the ledger as it stands, during which the ledger
\* fails the queries in f.
IsValid ==
    /\ pc = "idle"
    /\ \E c \in IsValidContexts, f \in Faults :
        /\ context' = c
        /\ fault' = f
        /\ result' = is_valid(c, f)
    /\ pc' = "checked"
    /\ UNCHANGED <<combine_vars, ledger_vars, conn_vars, check_vars, substrate_vars>>

NextIsValid == AppendBlock \/ IsValid

SpecIsValid == InitIsValid /\ [][NextIsValid]_vars

(* ------------------------------------------------------------------ *)
(* Properties of is_valid                                              *)
(* ------------------------------------------------------------------ *)

\* num_blocks() succeeded and the tombstone check passed.
TombstonePassed ==
    /\ ~fault.num_blocks
    /\ num_blocks < context.tombstone_block

\* Some contains_key_image query of the context returns true or fails.
KeyImagePresentOrErrored ==
    \E k \in context.key_images : k \in ledger_key_images \/ k \in fault.key_images

\* Some contains_tx_out_public_key query of the context returns true or fails.
PublicKeyPresentOrErrored ==
    \E p \in context.output_public_keys :
        p \in ledger_public_keys \/ p \in fault.public_keys

\* C3: whatever storage errors the ledger returns, is_valid never returns Ok
\* for a context with a key image that is in the ledger or an output public
\* key that is in the ledger.
C3_NoDoubleSpendAdmission ==
    (/\ pc = "checked"
     /\ \/ context.key_images \cap ledger_key_images # {}
        \/ context.output_public_keys \cap ledger_public_keys # {})
        => result # "Ok"

\* The tombstone check passed, the only key image of the context is in the
\* ledger, and the query for it failed with a storage error.
C3_Witness ==
    /\ pc = "checked"
    /\ TombstonePassed
    /\ context.key_images = {"k1"}
    /\ "k1" \in ledger_key_images
    /\ "k1" \in fault.key_images
    /\ context.output_public_keys \cap ledger_public_keys = {}
    /\ result = "ContainsSpentKeyImage"

\* C4: when num_blocks() succeeds with value cur, is_valid returns
\* TombstoneBlockExceeded if and only if cur >= tombstone_block: a tombstone
\* block equal to cur is expired, one equal to cur + 1 is not rejected for it.
C4_TombstoneBoundary ==
    (pc = "checked" /\ ~fault.num_blocks) =>
        /\ result = "TombstoneBlockExceeded" <=> num_blocks >= context.tombstone_block
        /\ context.tombstone_block = num_blocks => result = "TombstoneBlockExceeded"
        /\ context.tombstone_block = num_blocks + 1 => result # "TombstoneBlockExceeded"

\* A context whose tombstone block equals the block count of a ledger of
\* three blocks is rejected as expired.
C4_Witness ==
    /\ pc = "checked"
    /\ ~fault.num_blocks
    /\ num_blocks = 3
    /\ context.tombstone_block = num_blocks
    /\ result = "TombstoneBlockExceeded"

\* C5: when num_blocks() succeeds and the tombstone check passes, is_valid
\* returns ContainsSpentKeyImage whenever contains_key_image returns true or a
\* storage error for some key image of the context; the storage error is not
\* returned as LedgerError.
C5_SpentKeyImage ==
    (pc = "checked" /\ TombstonePassed /\ KeyImagePresentOrErrored)
        => result = "ContainsSpentKeyImage"

\* No key image of the context is in the ledger, and one query failed.
C5_Witness ==
    /\ pc = "checked"
    /\ TombstonePassed
    /\ context.key_images # {}
    /\ context.key_images \cap ledger_key_images = {}
    /\ context.key_images \cap fault.key_images # {}
    /\ result = "ContainsSpentKeyImage"

\* C6: when num_blocks() succeeds, the tombstone check passes and no key image
\* is present or errored, is_valid returns ContainsExistingOutputPublicKey
\* whenever contains_tx_out_public_key returns true or a storage error for
\* some output public key of the context.
C6_ExistingOutputPublicKey ==
    (/\ pc = "checked"
     /\ TombstonePassed
     /\ ~KeyImagePresentOrErrored
     /\ PublicKeyPresentOrErrored)
        => result = "ContainsExistingOutputPublicKey"

\* No output public key of the context is in the ledger, and one query failed.
C6_Witness ==
    /\ pc = "checked"
    /\ TombstonePassed
    /\ context.key_images # {}
    /\ ~KeyImagePresentOrErrored
    /\ context.output_public_keys # {}
    /\ context.output_public_keys \cap ledger_public_keys = {}
    /\ context.output_public_keys \cap fault.public_keys # {}
    /\ result = "ContainsExistingOutputPublicKey"

\* C7: is_valid reports the first failure that applies, in the order
\* LedgerError (num_blocks() fails), TombstoneBlockExceeded,
\* ContainsSpentKeyImage, ContainsExistingOutputPublicKey, whatever later
\* failure conditions hold as well.
C7_ErrorPriority ==
    pc = "checked" =>
        /\ fault.num_blocks => result = "LedgerError"
        /\ (~fault.num_blocks /\ num_blocks >= context.tombstone_block)
              => result = "TombstoneBlockExceeded"
        /\ (TombstonePassed /\ KeyImagePresentOrErrored)
              => result = "ContainsSpentKeyImage"
        /\ (TombstonePassed /\ ~KeyImagePresentOrErrored /\ PublicKeyPresentOrErrored)
              => result = "ContainsExistingOutputPublicKey"

\* An expired context with a spent key image and an existing output public
\* key is reported as expired.
C7_Witness ==
    /\ pc = "checked"
    /\ ~fault.num_blocks
    /\ num_blocks >= context.tombstone_block
    /\ context.key_images \cap ledger_key_images # {}
    /\ context.output_public_keys \cap ledger_public_keys # {}
    /\ result = "TombstoneBlockExceeded"

\* C8: is_valid returns Ok if and only if num_blocks() succeeds with
\* cur < tombstone_block and every contains_key_image and
\* contains_tx_out_public_key query for the context returns false without
\* error.
C8_AcceptsExactlyTheRest ==
    pc = "checked" =>
        (result = "Ok" <=>
            /\ ~fault.num_blocks
            /\ num_blocks < context.tombstone_block
            /\ \A k \in context.key_images :
                  k \notin fault.key_images /\ k \notin ledger_key_images
            /\ \A p \in context.output_public_keys :
                  p \notin fault.public_keys /\ p \notin ledger_public_keys)

\* A context at the tombstone boundary (tombstone_block = cur + 1) with a key
\* image and an output public key is accepted on a ledger that holds other
\* key images and public keys, while queries for those others would fail.
C8_Witness ==
    /\ pc = "checked"
    /\ result = "Ok"
    /\ num_blocks = 3
    /\ context.tombstone_block = num_blocks + 1
    /\ context.key_images # {}
    /\ context.output_public_keys # {}
    /\ ledger_key_images # {}
    /\ ledger_public_keys # {}
    /\ fault.key_images # {}
    /\ fault.public_keys # {}

(* ------------------------------------------------------------------ *)
(* AttestedConnection::attested_call                                   *)
(* (connection/src/attested_connection.rs)                             *)
(* ------------------------------------------------------------------ *)
MaxCalls == 4

\* The values func may return on success.
Values == {"v1", "v2"}

\* GrpcError: an RpcFailure with its status code, or another transport error.
RpcFailure(status) == [kind |-> "RpcFailure", status |-> status]

GrpcErrors ==
    {RpcFailure("UNAUTHENTICATED"), RpcFailure("UNAVAILABLE"),
     [kind |-> "RpcFinished", status |-> "None"]}

NoGrpcError == [kind |-> "None", status |-> "None"]

\* StdResult<T, GrpcError>, what func returns.
GrpcOk(v) == [ok |-> TRUE, val |-> v, err |-> NoGrpcError]
GrpcErr(e) == [ok |-> FALSE, val |-> "None", err |-> e]

FuncResults == {GrpcOk(v) : v \in Values} \cup {GrpcErr(e) : e \in GrpcErrors}

\* Self::Error: an attestation error of attest(), or From<GrpcError>.
From(e) == [from |-> "GrpcError", kind |-> e.kind, status |-> e.status]
NoError == [from |-> "None", kind |-> "None", status |-> "None"]

AttestErrors ==
    {[from |-> "attest", kind |-> "HandshakeFailed", status |-> "None"],
     From(RpcFailure("UNAVAILABLE"))}

\* StdResult<T, Self::Error>, what attest() and attested_call return.
AttestedOk(v) == [ok |-> TRUE, val |-> v, err |-> NoError]
AttestedErr(e) == [ok |-> FALSE, val |-> "None", err |-> e]

AttestOutcomes == {AttestedOk("unit")} \cup {AttestedErr(e) : e \in AttestErrors}

\* attest(): a successful handshake sets the flag, a failed one leaves it.
attest(flag, outcome) == IF outcome.ok THEN TRUE ELSE flag

\* deattest(): clears the flag.
deattest(flag) == FALSE

\* An attested call that attests on every entry.
needs_attest_always(flag) == TRUE

\* An attested call that attests only a connection that is attested already.
needs_attest_inverted(flag) == flag

\* if !self.is_attested()
needs_attest(flag) == ~flag

\* An attested call that ignores the outcome of attest().
after_attest_unchecked(outcome) == "func"

\* self.attest()? : a failed attestation returns from the call.
after_attest(outcome) == IF outcome.ok THEN "func" ELSE "returned"

\* An attested call that deattests on every RpcFailure, whatever its status.
is_unauthenticated_any_status(r) == ~r.ok /\ r.err.kind = "RpcFailure"

\* An attested call that keeps the connection attested whatever func returns.
is_unauthenticated_never(r) == FALSE

\* if let Err(GrpcError::RpcFailure(rpc_status)) = &result
\*     if rpc_status.status == RpcStatusCode::UNAUTHENTICATED
is_unauthenticated(r) ==
    /\ ~r.ok
    /\ r.err.kind = "RpcFailure"
    /\ r.err.status = "UNAUTHENTICATED"

\* An attested call that reports a deattestation as an attestation error.
return_value_replaced(r) ==
    IF r.ok THEN AttestedOk(r.val)
    ELSE IF r.err.kind = "RpcFailure" /\ r.err.status = "UNAUTHENTICATED"
    THEN AttestedErr([from |-> "attest", kind |-> "HandshakeFailed", status |-> "None"])
    ELSE AttestedErr(From(r.err))

\* Ok(result?)
return_value(r) == IF r.ok THEN AttestedOk(r.val) ELSE AttestedErr(From(r.err))

\* An attested call that starts over after an UNAUTHENTICATED failure.
after_func_retry(r) ==
    IF ~r.ok /\ r.err.kind = "RpcFailure" /\ r.err.status = "UNAUTHENTICATED"
    THEN "attest" ELSE "returned"

\* After func the call inspects the result once and returns.
after_func(r) == "returned"

Event(op) == [call |-> calls, op |-> op, attested |-> attested]

InitAttested ==
    /\ pc = "idle"
    /\ InitConnection
    /\ InitCheck
    /\ InitSubstrate
    /\ tx_contexts = <<>>
    /\ max_elements = 0
    /\ allowed_hashes = <<>>
    /\ num_blocks = 1
    /\ ledger_key_images = {}
    /\ ledger_public_keys = {}
    /\ fault = NoFault
    /\ context = NoContext
    /\ result = "None"

\* A caller enters attested_call and reads is_attested().
EnterAttestedCall ==
    /\ pc \in {"idle", "returned"}
    /\ calls < MaxCalls
    /\ calls' = calls + 1
    /\ attested_on_entry' = attested
    /\ attest_result' = AttestedErr(NoError)
    /\ func_result' = GrpcErr(NoGrpcError)
    /\ ret' = AttestedErr(NoError)
    /\ pc' = IF needs_attest(attested) THEN "attest" ELSE "func"
    /\ UNCHANGED <<attested, trace>>
    /\ UNCHANGED <<combine_vars, ledger_vars, valid_vars, check_vars, substrate_vars>>

\* self.attest()?
Attest ==
    /\ pc = "attest"
    /\ \E outcome \in AttestOutcomes :
        /\ trace' = Append(trace, Event("attest"))
        /\ attest_result' = outcome
        /\ attested' = attest(attested, outcome)
        /\ pc' = after_attest(outcome)
        /\ ret' = IF after_attest(outcome) = "returned" THEN outcome ELSE ret
    /\ UNCHANGED <<attested_on_entry, calls, func_result>>
    /\ UNCHANGED <<combine_vars, ledger_vars, valid_vars, check_vars, substrate_vars>>

\* let result = func(self); then the inspection of the result, deattest() on
\* an UNAUTHENTICATED failure, and the return. func is a transport call: it does
\* not call attest() or deattest() itself.
Func ==
    /\ pc = "func"
    /\ \E r \in FuncResults :
        /\ func_result' = r
        /\ IF is_unauthenticated(r)
           THEN /\ trace' = Append(Append(trace, Event("func")),
                                   [call |-> calls, op |-> "deattest", attested |-> attested])
                /\ attested' = deattest(attested)
           ELSE /\ trace' = Append(trace, Event("func"))
                /\ attested' = attested
        /\ pc' = after_func(r)
        /\ ret' = IF after_func(r) = "returned" THEN return_value(r) ELSE ret
    /\ UNCHANGED <<attested_on_entry, calls, attest_result>>
    /\ UNCHANGED <<combine_vars, ledger_vars, valid_vars, check_vars, substrate_vars>>

NextAttested == EnterAttestedCall \/ Attest \/ Func

SpecAttested == InitAttested /\ [][NextAttested]_vars

(* ------------------------------------------------------------------ *)
(* Properties of attested_call                                         *)
(* ------------------------------------------------------------------ *)

\* The invocations made by call n, in order.
events_of(n) == LET in_call(e) == e.call = n IN SelectSeq(trace, in_call)

\* The invocations of op made by call n, in order.
invocations(op, n) == LET is_op(e) == e.call = n /\ e.op = op IN SelectSeq(trace, is_op)

\* C14: a call entered unattested calls attest() exactly once, as the first
\* thing it does and so before func; a call entered attested never calls
\* attest().
C14_AttestOnceBeforeFunc ==
    calls >= 1 =>
        LET ev == events_of(calls) IN
        /\ attested_on_entry => Len(invocations("attest", calls)) = 0
        /\ (~attested_on_entry /\ pc # "attest") =>
              /\ Len(invocations("attest", calls)) = 1
              /\ ev[1].op = "attest"
        /\ (~attested_on_entry /\ pc = "attest") => ev = <<>>

\* The first call attested and called func; the second call, entered
\* attested, called func without attesting.
C14_Witness ==
    /\ pc = "returned"
    /\ calls = 2
    /\ attested_on_entry
    /\ Len(trace) = 3
    /\ trace[1].op = "attest" /\ trace[1].call = 1
    /\ trace[2].op = "func" /\ trace[2].call = 1
    /\ trace[3].op = "func" /\ trace[3].call = 2

\* func failed with RpcFailure UNAUTHENTICATED in the call under way.
Unauthenticated == func_result = GrpcErr(RpcFailure("UNAUTHENTICATED"))

\* C15: when func returned RpcFailure UNAUTHENTICATED, the call has called
\* deattest() once, after func and as the last thing before it returned, the
\* connection is unattested on return, and the caller gets the error.
C15_DeattestOnUnauthenticated ==
    (pc = "returned" /\ Unauthenticated) =>
        LET ev == events_of(calls) IN
        /\ Len(invocations("deattest", calls)) = 1
        /\ Len(ev) >= 2
        /\ ev[Len(ev)].op = "deattest"
        /\ ev[Len(ev) - 1].op = "func"
        /\ ~attested
        /\ ret = AttestedErr(From(RpcFailure("UNAUTHENTICATED")))

\* A call entered attested whose func failed with UNAUTHENTICATED has returned.
C15_Witness ==
    /\ pc = "returned"
    /\ attested_on_entry
    /\ Unauthenticated
    /\ ~attested
    /\ ~ret.ok

\* Call n ended with a deattest().
ended_deattested(n) ==
    LET ev == events_of(n) IN Len(ev) >= 1 /\ ev[Len(ev)].op = "deattest"

\* C16: over every sequence of attested calls on the connection, func is
\* invoked only while is_attested() is true; the call that follows a call
\* ended by deattest() begins with attest() and invokes func only behind it.
C16_FuncOnlyWhileAttested ==
    /\ \A i \in 1..Len(trace) : trace[i].op = "func" => trace[i].attested
    /\ \A n \in 2..calls :
          ended_deattested(n - 1) =>
              LET ev == events_of(n) IN
              /\ Len(ev) >= 1 => (ev[1].op = "attest" /\ ~ev[1].attested)
              /\ \A i \in 1..Len(ev) : ev[i].op = "func" => (i = 2 /\ ev[i].attested)

\* The first call was deattested by an UNAUTHENTICATED failure; the second
\* call attested again and then invoked func.
C16_Witness ==
    /\ pc = "returned"
    /\ calls = 2
    /\ ended_deattested(1)
    /\ Len(events_of(2)) = 2
    /\ events_of(2)[1].op = "attest"
    /\ events_of(2)[2].op = "func"
    /\ events_of(2)[2].attested
    /\ ret.ok

\* attest() failed in the call under way.
AttestFailed == ~attest_result.ok /\ attest_result.err \in AttestErrors

\* C17: a call entered unattested whose attest() failed returns the error of
\* attest(), has invoked neither func nor deattest(), and leaves the
\* connection unattested.
C17_AttestFailure ==
    (pc = "returned" /\ ~attested_on_entry /\ AttestFailed) =>
        /\ ret = attest_result
        /\ Len(invocations("func", calls)) = 0
        /\ Len(invocations("deattest", calls)) = 0
        /\ events_of(calls) = <<[call |-> calls, op |-> "attest", attested |-> FALSE]>>
        /\ ~attested

\* A call entered unattested has returned the handshake failure of attest().
C17_Witness ==
    /\ pc = "returned"
    /\ ~attested_on_entry
    /\ AttestFailed
    /\ ret = AttestedErr([from |-> "attest", kind |-> "HandshakeFailed", status |-> "None"])

\* The attestation step of the call under way succeeded or was not needed.
AttestationPassed == attested_on_entry \/ attest_result.ok

\* C18: the call returns Ok(v) exactly when the attestation step succeeded or
\* was not needed and func returned Ok(v); every transport error of func,
\* UNAUTHENTICATED included, is returned as the error made from it.
C18_ReturnValue ==
    pc = "returned" =>
        /\ \A v \in Values :
              ret = AttestedOk(v) <=> (AttestationPassed /\ func_result = GrpcOk(v))
        /\ ret.ok => ret.val \in Values
        /\ \A e \in GrpcErrors :
              func_result = GrpcErr(e) =>
                  ret = [ok |-> FALSE, val |-> "None",
                         err |-> [from |-> "GrpcError", kind |-> e.kind, status |-> e.status]]

\* A call whose func failed with UNAUTHENTICATED has deattested and returned
\* that transport error.
C18_Witness ==
    /\ pc = "returned"
    /\ AttestationPassed
    /\ Unauthenticated
    /\ ~attested
    /\ ret.err = [from |-> "GrpcError", kind |-> "RpcFailure", status |-> "UNAUTHENTICATED"]

\* C19: no call invokes func twice; a returned call whose attestation step
\* succeeded or was not needed has invoked func exactly once, and after an
\* UNAUTHENTICATED failure it has made no further attest() or func.
C19_NoRetry ==
    /\ \A n \in 1..calls : Len(invocations("func", n)) <= 1
    /\ (pc = "returned" /\ AttestationPassed) => Len(invocations("func", calls)) = 1
    /\ (pc = "returned" /\ ~AttestationPassed) => Len(invocations("func", calls)) = 0
    /\ \A n \in 1..calls :
          LET ev == events_of(n) IN
          \A i \in 1..Len(ev) : ev[i].op = "deattest" => i = Len(ev)

\* The first call on the connection attested, invoked func once, was
\* deattested by its UNAUTHENTICATED failure and returned.
C19_Witness ==
    /\ pc = "returned"
    /\ calls = 1
    /\ Unauthenticated
    /\ Len(invocations("func", 1)) = 1
    /\ Len(events_of(1)) = 3

\* func ran in the call under way and returned Ok or an error other than
\* RpcFailure UNAUTHENTICATED.
FuncEndedAuthenticated ==
    /\ pc = "returned"
    /\ Len(invocations("func", calls)) = 1
    /\ ~Unauthenticated

\* A step that changes the attestation state is attest() in a call entered
\* unattested, or deattest() after func returned RpcFailure UNAUTHENTICATED.
ListedTransition ==
    \/ /\ pc = "attest"
       /\ ~attested_on_entry
       /\ ~attested
       /\ attested'
       /\ attest_result'.ok
    \/ /\ pc = "func"
       /\ attested
       /\ ~attested'
       /\ func_result' = GrpcErr(RpcFailure("UNAUTHENTICATED"))

\* C34: attested_call changes the attestation state only through attest()
\* when entered unattested and through deattest() when func returned
\* RpcFailure UNAUTHENTICATED; when func returned Ok or any other error the
\* call has not called deattest() and the connection is attested on return.
C34_OnlyListedTransitions ==
    /\ [][attested' # attested => ListedTransition]_vars
    /\ [](FuncEndedAuthenticated =>
             /\ Len(invocations("deattest", calls)) = 0
             /\ attested)

\* A call entered attested whose func failed with RpcFailure UNAVAILABLE has
\* returned, and the connection is still attested.
C34_Witness ==
    /\ FuncEndedAuthenticated
    /\ attested_on_entry
    /\ func_result = GrpcErr(RpcFailure("UNAVAILABLE"))
    /\ Len(invocations("deattest", calls)) = 0
    /\ attested

(* ------------------------------------------------------------------ *)
(* well_formed_check                                                   *)
(* ------------------------------------------------------------------ *)
MaxHighestIndices == 2
MaxIndex == 2

\* The largest value of the unsigned type of num_blocks, scaled down.
MaxU64 == 15

\* tx_context.highest_indices
HighestIndices ==
    UNION {[1..n -> 0..MaxIndex] : n \in 0..MaxHighestIndices}

\* The storage errors of one call: the queries that fail.
CheckFaults == [num_blocks : BOOLEAN, proofs : BOOLEAN]

\* A membership proof of the TxOut at index, in a ledger whose last TxOut is
\* at highest_index.
TxOutMembershipProof(index) == [index |-> index, highest_index |-> num_tx_outs - 1]

\* A ledger that proves membership of the TxOuts of its latest block only.
get_tx_out_proof_of_memberships_latest(indices, f) == IF f.proofs \/ \E i \in 1..Len(indices) : indices[i] + 1 # num_tx_outs THEN [ok |-> FALSE, val |-> <<>>] ELSE [ok |-> TRUE, val |-> [i \in 1..Len(indices) |-> TxOutMembershipProof(indices[i])]]

\* Ledger::get_tx_out_proof_of_memberships: one proof per index, in order; an
\* index the ledger does not hold is an error.
get_tx_out_proof_of_memberships(indices, f) ==
    IF f.proofs \/ \E i \in 1..Len(indices) : indices[i] >= num_tx_outs
    THEN [ok |-> FALSE, val |-> <<>>]
    ELSE [ok |-> TRUE, val |-> [i \in 1..Len(indices) |-> TxOutMembershipProof(indices[i])]]

\* Ledger::num_blocks as a value of the check's own record shape.
read_num_blocks(f) ==
    IF ledger_num_blocks(f).ok THEN [ok |-> TRUE, val |-> num_blocks]
    ELSE [ok |-> FALSE, val |-> 0]

\* a - b on the unsigned type: below zero the subtraction panics in a build
\* with overflow checks and wraps around in a build without them.
sub_u64(a, b) ==
    IF a >= b THEN {[panic |-> FALSE, val |-> a - b]}
    ELSE {[panic |-> TRUE, val |-> 0], [panic |-> FALSE, val |-> (a + MaxU64 + 1) - b]}

\* TransactionValidationResult<(u64, Vec<TxOutMembershipProof>)>
NotChecked == [status |-> "None", current_block_index |-> 0, membership_proofs |-> <<>>]
LedgerError == [status |-> "LedgerError", current_block_index |-> 0, membership_proofs |-> <<>>]
Panicked == [status |-> "Panic", current_block_index |-> 0, membership_proofs |-> <<>>]
WellFormed(index, proofs) ==
    [status |-> "Ok", current_block_index |-> index, membership_proofs |-> proofs]

InitWellFormed ==
    /\ pc = "idle"
    /\ num_blocks = 0
    /\ ledger_key_images = {}
    /\ ledger_public_keys = {}
    /\ fault = [num_blocks |-> FALSE, proofs |-> FALSE]
    /\ InitCheck
    /\ InitConnection
    /\ InitSubstrate
    /\ tx_contexts = <<>>
    /\ max_elements = 0
    /\ allowed_hashes = <<>>
    /\ context = NoContext
    /\ result = "None"

\* Another thread appends a block with one or two TxOuts to the ledger.
WriteBlock ==
    /\ num_blocks < MaxBlocks
    /\ num_blocks' = num_blocks + 1
    /\ \E n \in 1..2 : num_tx_outs' = num_tx_outs + n
    /\ UNCHANGED <<pc, fault, highest_indices, membership_proofs, blocks_read, well_formed,
                   ledger_reads, succeeded_at>>
    /\ UNCHANGED <<ledger_key_images, ledger_public_keys, context, result>>
    /\ UNCHANGED <<combine_vars, conn_vars, substrate_vars>>

\* well_formed_check is called with a tx context; during the call the ledger
\* fails the queries in f.
EnterWellFormedCheck ==
    /\ pc \in {"idle", "returned", "panicked"}
    /\ \E indices \in HighestIndices, f \in CheckFaults :
        /\ highest_indices' = indices
        /\ fault' = f
        /\ succeeded_at' =
               IF indices = highest_indices THEN succeeded_at
               ELSE [ok |-> FALSE, num_blocks |-> 0]
    /\ membership_proofs' = [ok |-> FALSE, val |-> <<>>]
    /\ blocks_read' = [ok |-> FALSE, val |-> 0]
    /\ well_formed' = NotChecked
    /\ ledger_reads' = <<>>
    /\ pc' = "proofs"
    /\ UNCHANGED <<num_tx_outs, context, result>>
    /\ UNCHANGED <<combine_vars, ledger_vars, conn_vars, substrate_vars>>

\* A check that goes on to num_blocks() whatever the proofs query returned.
after_proofs_unchecked(proofs) == "num_blocks"

\* .map_err(|e| TransactionValidationError::Ledger(e.to_string()))? on the
\* proofs query: a failed query returns from the check.
after_proofs(proofs) == IF proofs.ok THEN "num_blocks" ELSE "returned"

\* let membership_proofs = self.ledger.get_tx_out_proof_of_memberships(..)?
ReadProofs ==
    /\ pc = "proofs"
    /\ LET proofs == get_tx_out_proof_of_memberships(highest_indices, fault) IN
        /\ membership_proofs' = proofs
        /\ pc' = after_proofs(proofs)
        /\ well_formed' = IF after_proofs(proofs) = "returned" THEN LedgerError ELSE well_formed
    /\ ledger_reads' = Append(ledger_reads, [query |-> "proofs", num_blocks |-> num_blocks])
    /\ succeeded_at' = succeeded_at
    /\ UNCHANGED <<num_tx_outs, highest_indices, blocks_read, fault, context, result>>
    /\ UNCHANGED <<combine_vars, ledger_vars, conn_vars, substrate_vars>>

\* let num_blocks = self.ledger.num_blocks()?; Ok((num_blocks - 1, membership_proofs))
ReadNumBlocks ==
    /\ pc = "num_blocks"
    /\ LET blocks == read_num_blocks(fault) IN
        /\ blocks_read' = blocks
        /\ IF ~blocks.ok
           THEN pc' = "returned" /\ well_formed' = LedgerError
           ELSE \E index \in sub_u64(blocks.val, 1) :
                   IF index.panic
                   THEN pc' = "panicked" /\ well_formed' = Panicked
                   ELSE /\ pc' = "returned"
                        /\ well_formed' = WellFormed(index.val, membership_proofs.val)
    /\ ledger_reads' = Append(ledger_reads, [query |-> "num_blocks", num_blocks |-> num_blocks])
    /\ succeeded_at' =
           IF well_formed'.status = "Ok" /\ ~succeeded_at.ok
           THEN [ok |-> TRUE, num_blocks |-> num_blocks]
           ELSE succeeded_at
    /\ UNCHANGED <<num_tx_outs, highest_indices, membership_proofs, fault, context, result>>
    /\ UNCHANGED <<combine_vars, ledger_vars, conn_vars, substrate_vars>>

NextWellFormed == WriteBlock \/ EnterWellFormedCheck \/ ReadProofs \/ ReadNumBlocks

SpecWellFormed == InitWellFormed /\ [][NextWellFormed]_vars

(* ------------------------------------------------------------------ *)
(* Properties of well_formed_check                                     *)
(* ------------------------------------------------------------------ *)

\* C20: a successful well_formed_check returns the index num_blocks - 1 of
\* the block count it read, and the proofs the ledger returned for
\* highest_indices: one proof per requested index, in order.
C20_ReturnsIndexAndProofs ==
    well_formed.status = "Ok" =>
        /\ blocks_read.ok
        /\ well_formed.current_block_index + 1 = blocks_read.val
        /\ membership_proofs.ok
        /\ well_formed.membership_proofs = membership_proofs.val
        /\ Len(well_formed.membership_proofs) = Len(highest_indices)
        /\ \A i \in 1..Len(highest_indices) :
              well_formed.membership_proofs[i].index = highest_indices[i]

\* The call of well_formed_check under way has ended.
CheckEnded == pc \in {"returned", "panicked"} /\ well_formed.status # "None"

\* C21: well_formed_check returns LedgerError exactly when the proofs query
\* or the num_blocks query fails, and returns Ok whenever both succeed.
C21_LedgerErrorExactly ==
    CheckEnded =>
        /\ well_formed.status = "LedgerError"
              <=> (~membership_proofs.ok \/ fault.num_blocks)
        /\ (membership_proofs.ok /\ ~fault.num_blocks) => well_formed.status = "Ok"

\* Some requested index is not in the ledger as it stands.
IndexFromTheFuture ==
    \E i \in 1..Len(highest_indices) : highest_indices[i] >= num_tx_outs

\* C22: a check whose highest_indices hold an index at or beyond the number
\* of TxOuts of the ledger ends with LedgerError; a check that returns Ok
\* requested only indices the ledger held when the proofs were read.
C22_RejectsFutureIndex ==
    /\ (CheckEnded /\ IndexFromTheFuture) => well_formed.status = "LedgerError"
    /\ well_formed.status = "Ok" =>
          \A i \in 1..Len(well_formed.membership_proofs) :
              highest_indices[i] <= well_formed.membership_proofs[i].highest_index

\* On a ledger with TxOuts and without storage errors, a check that asked
\* for an index beyond them has returned LedgerError.
C22_Witness ==
    /\ pc = "returned"
    /\ num_tx_outs >= 1
    /\ fault = [num_blocks |-> FALSE, proofs |-> FALSE]
    /\ IndexFromTheFuture
    /\ highest_indices[1] < num_tx_outs
    /\ well_formed.status = "LedgerError"

\* C31: well_formed_check reads the membership proofs before it reads
\* num_blocks and does not read num_blocks when the proofs read failed; with
\* blocks appended between the two reads, the index of a successful check plus
\* one is never smaller than the block count at the moment the proofs were
\* read.
C31_ProofsBeforeNumBlocks ==
    /\ Len(ledger_reads) <= 2
    /\ Len(ledger_reads) >= 1 => ledger_reads[1].query = "proofs"
    /\ Len(ledger_reads) = 2 =>
          /\ ledger_reads[2].query = "num_blocks"
          /\ membership_proofs.ok
    /\ CheckEnded => Len(ledger_reads) >= 1
    /\ well_formed.status = "Ok" =>
          /\ Len(ledger_reads) = 2
          /\ well_formed.current_block_index + 1 >= ledger_reads[1].num_blocks

\* A check has returned Ok after a block was appended between its two reads.
C31_Witness ==
    /\ well_formed.status = "Ok"
    /\ Len(ledger_reads) = 2
    /\ ledger_reads[1].num_blocks >= 1
    /\ ledger_reads[2].num_blocks > ledger_reads[1].num_blocks
    /\ well_formed.current_block_index = ledger_reads[1].num_blocks

\* The call under way is a later check of a tx context that passed before: it
\* began after another block had been appended, and the ledger fails none of
\* its queries.
CheckedAgainOnGrownLedger ==
    /\ succeeded_at.ok
    /\ ~fault.proofs
    /\ ~fault.num_blocks
    /\ Len(ledger_reads) >= 1
    /\ ledger_reads[1].num_blocks > succeeded_at.num_blocks

\* C33: a tx context for which well_formed_check has succeeded passes every
\* later check, made without storage errors after blocks were appended to
\* the ledger.
C33_StaysWellFormed ==
    (CheckEnded /\ CheckedAgainOnGrownLedger) => well_formed.status = "Ok"

\* A context that names a TxOut has passed, blocks have been appended, and it
\* has passed again.
C33_Witness ==
    /\ CheckEnded
    /\ CheckedAgainOnGrownLedger
    /\ Len(highest_indices) >= 1
    /\ succeeded_at.num_blocks >= 1
    /\ well_formed.status = "Ok"

\* C38: for every block count n the ledger reports, 0 included, the
\* subtraction num_blocks - 1 neither panics nor wraps: a check that read
\* its proofs and the count n has ended with an index whose successor, as
\* an integer, is n.
C38_NoUnderflow ==
    (CheckEnded /\ membership_proofs.ok /\ blocks_read.ok) =>
        /\ pc = "returned"
        /\ well_formed.status # "Panic"
        /\ well_formed.current_block_index + 1 = blocks_read.val

(* ------------------------------------------------------------------ *)
(* ConnectionManager (connection/src/connection_manager.rs)            *)
(* ------------------------------------------------------------------ *)
MaxConnections == 2
MaxClones == 1

\* The URIs of the connections: two of them name the same responder, one
\* has no host and port to make a ResponderId from.
Uris == {"mc://node1:443/", "mc://node1:443/?ca-bundle=x", "mc://node2:443/", "mc:///"}

ResponderIds == {"node1:443", "node2:443"}

\* conn.uri().responder_id()
responder_id(uri) ==
    IF uri = "mc:///" THEN [ok |-> FALSE, val |-> "none"]
    ELSE IF uri = "mc://node2:443/" THEN [ok |-> TRUE, val |-> "node2:443"]
    ELSE [ok |-> TRUE, val |-> "node1:443"]

\* HashMap::insert: an entry under a key the map holds already is replaced.
insert(map, id, conn) ==
    {e \in map : e.responder_id # id} \cup {[responder_id |-> id, conn |-> conn]}

\* HashMap::from_iter over the first i connections, each under its
\* ResponderId and known by its position in the Vec.
RECURSIVE from_iter(_, _, _)
from_iter(connections, i, map) ==
    IF i > Len(connections) THEN map
    ELSE from_iter(connections, i + 1, insert(map, responder_id(connections[i]).val, i))

\* ConnectionManager::new: panics when a URI yields no ResponderId.
new(connections) ==
    IF \E i \in 1..Len(connections) : ~responder_id(connections[i]).ok
    THEN [panic |-> TRUE, map |-> {}]
    ELSE [panic |-> FALSE, map |-> from_iter(connections, 1, {})]

\* The keys of a map.
keys(map) == {e.responder_id : e \in map}

\* The orders in which a HashMap of these keys may iterate.
orders(ks) ==
    {o \in UNION {[1..n -> ks] : n \in {Cardinality(ks)}} :
        \A i, j \in 1..Len(o) : i # j => o[i] # o[j]}

\* A clone that allocates a registry of its own.
clone_new_registry(arc) == arc + 1

\* Clone for ConnectionManager: the clone holds the same Arc.
clone(arc) == arc

\* The registry an Arc points to: new allocates the one registry there is.
registry_of(arc) == IF arc = 1 THEN peer_connections ELSE {}

\* The connection a map holds under id.
value_of(map, id) == (CHOOSE e \in map : e.responder_id = id).conn

\* The keys of a map in the order the HashMap iterates them.
keys_in_order(map) ==
    LET held(id) == id \in keys(map) IN SelectSeq(iteration_order, held)

\* The queries of the manager and the arguments they take.
Queries ==
    {[op |-> op, id |-> "none"] :
        op \in {"responder_ids", "connections", "len", "is_empty"}}
    \cup {[op |-> "get_connection", id |-> id] : id \in ResponderIds \cup {"node3:443"}}

Reply(ids, conns, len, flag) == [ids |-> ids, conns |-> conns, len |-> len, flag |-> flag]

\* responder_ids(), connections(), get_connection(id), len(), is_empty()
\* on the map behind the read guard.
answer(q, map) ==
    LET ks == keys_in_order(map) IN
    IF q.op = "responder_ids" THEN Reply(ks, <<>>, 0, FALSE)
    ELSE IF q.op = "connections"
    THEN Reply(<<>>, [i \in 1..Len(ks) |-> value_of(map, ks[i])], 0, FALSE)
    ELSE IF q.op = "get_connection"
    THEN (IF q.id \in keys(map)
          THEN Reply(<<>>, <<value_of(map, q.id)>>, 0, TRUE)
          ELSE Reply(<<>>, <<>>, 0, FALSE))
    ELSE IF q.op = "len" THEN Reply(<<>>, <<>>, Cardinality(map), FALSE)
    ELSE Reply(<<>>, <<>>, 0, map = {})

\* A get_connection that takes the connection out of the registry.
after_query_taking(q, map) == IF q.op = "get_connection" THEN {e \in map : e.responder_id # q.id} ELSE map

\* The registry after a query: every query goes through self.read() and has
\* the map behind a read guard only.
after_query(q, map) == map

InitManagerSpec ==
    /\ pc = "unbuilt"
    /\ InitSubstrate
    /\ InitConnection
    /\ InitCheck
    /\ tx_contexts = <<>>
    /\ max_elements = 0
    /\ allowed_hashes = <<>>
    /\ num_blocks = 1
    /\ ledger_key_images = {}
    /\ ledger_public_keys = {}
    /\ fault = NoFault
    /\ context = NoContext
    /\ result = "None"

\* What the manager's operations leave alone.
outside_manager ==
    <<core_vars, lock_vars, retry_vars, network_vars, tombstone_checks, mutexes, scp_vars>>

\* ConnectionManager::new(connections, logger)
New ==
    /\ pc = "unbuilt"
    /\ \E connections \in UNION {[1..n -> Uris] : n \in 0..MaxConnections} :
        /\ given' = connections
        /\ peer_connections' = new(connections).map
        /\ IF new(connections).panic
           THEN /\ pc' = "panicked"
                /\ handles' = <<>>
                /\ iteration_order' = <<>>
           ELSE /\ pc' = "built"
                /\ handles' = <<1>>
                /\ \E o \in orders(keys(new(connections).map)) : iteration_order' = o
    /\ UNCHANGED <<readers, queries, outside_manager>>

\* manager.clone(), on the manager or on one of its clones.
Clone ==
    /\ pc = "built"
    /\ Len(handles) < 1 + MaxClones
    /\ \E h \in 1..Len(handles) : handles' = Append(handles, clone(handles[h]))
    /\ UNCHANGED <<pc, given, peer_connections, iteration_order, readers, queries, outside_manager>>

\* A thread calls a query on a handle: self.read() takes a read guard.
Read(t) ==
    /\ pc = "built"
    /\ queries[t].at # "reading"
    /\ \E h \in 1..Len(handles), q \in Queries :
        queries' = [queries EXCEPT ![t] =
                       [at |-> "reading", handle |-> h, op |-> q.op, id |-> q.id,
                        ids |-> <<>>, conns |-> <<>>, len |-> 0, flag |-> FALSE]]
    /\ readers' = readers + 1
    /\ UNCHANGED <<pc, given, peer_connections, iteration_order, handles, outside_manager>>

\* The query copies its answer out of the map and drops the read guard.
Answer(t) ==
    /\ queries[t].at = "reading"
    /\ LET q == queries[t]
           a == answer(q, registry_of(handles[q.handle]))
       IN queries' = [queries EXCEPT ![t] =
                         [at |-> "answered", handle |-> q.handle, op |-> q.op, id |-> q.id,
                          ids |-> a.ids, conns |-> a.conns, len |-> a.len, flag |-> a.flag]]
    /\ peer_connections' = after_query(queries[t], peer_connections)
    /\ readers' = readers - 1
    /\ UNCHANGED <<pc, given, iteration_order, handles, outside_manager>>

NextManager == New \/ Clone \/ (\E t \in Threads : Read(t)) \/ (\E t \in Threads : Answer(t))

SpecManager == InitManagerSpec /\ [][NextManager]_vars

(* ------------------------------------------------------------------ *)
(* Properties of the ConnectionManager                                 *)
(* ------------------------------------------------------------------ *)

\* Two of the given connections derive the same ResponderId.
DuplicateResponderIds ==
    \E i, j \in 1..Len(given) :
        i # j /\ responder_id(given[i]) = responder_id(given[j])

\* C23: construction fails when two of the given connections derive the
\* same ResponderId: no manager is built from such connections.
C23_RejectsDuplicates == pc = "built" => ~DuplicateResponderIds

\* The reply part of a thread's query.
reply_of(q) == Reply(q.ids, q.conns, q.len, q.flag)

\* C24: every answered query, on whichever clone and in whichever
\* interleaving it was made, has the answer the same query has on the
\* original manager; two threads that made the same query have the same answer.
C24_ClonesShareRegistry ==
    /\ \A t \in Threads :
          queries[t].at = "answered" =>
              reply_of(queries[t]) = answer(queries[t], peer_connections)
    /\ \A t, u \in Threads :
          (/\ queries[t].at = "answered" /\ queries[u].at = "answered"
           /\ queries[t].op = queries[u].op /\ queries[t].id = queries[u].id)
              => reply_of(queries[t]) = reply_of(queries[u])

\* Two threads have asked the original and a clone for the responder ids of
\* a manager of two peers, and both have their answer.
C24_Witness ==
    /\ Len(handles) = 2
    /\ Cardinality(peer_connections) = 2
    /\ queries["t1"].at = "answered" /\ queries["t1"].handle = 1
    /\ queries["t2"].at = "answered" /\ queries["t2"].handle = 2
    /\ queries["t1"].op = "responder_ids" /\ queries["t2"].op = "responder_ids"
    /\ Len(queries["t2"].ids) = 2


\* C35: the registry is written at construction only. Once new has returned,
\* no step of the manager or of a clone adds, removes or replaces an entry,
\* and every answered responder_ids() and len() query, after whatever calls
\* and in whatever interleaving, reports the keys and the size of the map
\* that new built.
C35_WrittenAtConstructionOnly ==
    /\ [][pc = "built" => peer_connections' = peer_connections]_vars
    /\ [](\A t \in Threads :
             queries[t].at = "answered" =>
                 /\ queries[t].op = "responder_ids" =>
                       {queries[t].ids[k] : k \in 1..Len(queries[t].ids)}
                           = keys(new(given).map)
                 /\ queries[t].op = "len" =>
                       queries[t].len = Cardinality(new(given).map))

\* On a manager of two peers one thread has got a connection from a clone
\* and the other has then been answered len() = 2.
C35_Witness ==
    /\ Len(handles) = 2
    /\ queries["t1"].at = "answered"
    /\ queries["t1"].op = "get_connection"
    /\ queries["t1"].handle = 2
    /\ queries["t1"].flag
    /\ queries["t2"].at = "answered"
    /\ queries["t2"].op = "len"
    /\ queries["t2"].len = 2

(* ------------------------------------------------------------------ *)
(* SyncConnection: attested calls of several threads on one connection *)
(* ------------------------------------------------------------------ *)

\* A connection handle that hands out the connection without waiting.
can_lock_always(holder) == TRUE

\* Mutex::lock: the mutex is taken when no thread holds it.
can_lock(holder) == holder = "free"

\* What the calls on the connection leave alone.
outside_sync ==
    <<combine_vars, ledger_vars, valid_vars, check_vars, manager_vars, retry_vars,
      network_vars, tombstone_checks, mutexes, scp_vars, attested_on_entry, attest_result,
      func_result, ret>>

InitSync ==
    /\ pc = "idle"
    /\ InitConnection
    /\ InitCheck
    /\ InitSubstrate
    /\ tx_contexts = <<>>
    /\ max_elements = 0
    /\ allowed_hashes = <<>>
    /\ num_blocks = 1
    /\ ledger_key_images = {}
    /\ ledger_public_keys = {}
    /\ fault = NoFault
    /\ context = NoContext
    /\ result = "None"

\* Thread t takes the connection's mutex and enters attested_call, which
\* reads is_attested().
Lock(t) ==
    /\ callers[t].at = "idle"
    /\ calls < MaxCalls
    /\ can_lock(mutex)
    /\ mutex' = t
    /\ calls' = calls + 1
    /\ callers' = [callers EXCEPT ![t] =
                      [at |-> IF needs_attest(attested) THEN "attest" ELSE "func",
                       call |-> calls + 1]]
    /\ acquired' = Append(acquired, calls + 1)
    /\ UNCHANGED <<pc, attested, trace, completed, outside_sync>>

\* self.attest()? in the call of thread t.
AttestStep(t) ==
    /\ callers[t].at = "attest"
    /\ \E outcome \in AttestOutcomes :
        /\ trace' = Append(trace, [call |-> callers[t].call, op |-> "attest",
                                   attested |-> attested])
        /\ attested' = attest(attested, outcome)
        /\ callers' = [callers EXCEPT ![t].at = after_attest(outcome)]
    /\ UNCHANGED <<pc, calls, mutex, acquired, completed, outside_sync>>

\* func(self), and deattest() on an UNAUTHENTICATED failure, in the call of
\* thread t.
FuncStep(t) ==
    /\ callers[t].at = "func"
    /\ \E r \in FuncResults :
        /\ IF is_unauthenticated(r)
           THEN /\ trace' = Append(Append(trace,
                                 [call |-> callers[t].call, op |-> "func",
                                  attested |-> attested]),
                                 [call |-> callers[t].call, op |-> "deattest",
                                  attested |-> attested])
                /\ attested' = deattest(attested)
           ELSE /\ trace' = Append(trace, [call |-> callers[t].call, op |-> "func",
                                           attested |-> attested])
                /\ attested' = attested
        /\ callers' = [callers EXCEPT ![t].at = after_func(r)]
    /\ UNCHANGED <<pc, calls, mutex, acquired, completed, outside_sync>>

\* The call of thread t returns and its guard releases the mutex.
Unlock(t) ==
    /\ callers[t].at = "returned"
    /\ mutex' = IF mutex = t THEN "free" ELSE mutex
    /\ completed' = Append(completed, callers[t].call)
    /\ callers' = [callers EXCEPT ![t].at = "idle"]
    /\ UNCHANGED <<pc, calls, attested, trace, acquired, outside_sync>>

NextSync ==
    \/ \E t \in Threads : Lock(t)
    \/ \E t \in Threads : AttestStep(t)
    \/ \E t \in Threads : FuncStep(t)
    \/ \E t \in Threads : Unlock(t)

SpecSync == InitSync /\ [][NextSync]_vars

\* C25: the calls of several threads on one connection are serialised: at
\* most one thread is inside a call, the attest / func / deattest steps of
\* a call are not interleaved with those of another, func never runs on an
\* unattested connection, and the calls complete in the order in which
\* they took the mutex.
C25_CallsSerialised ==
    /\ \A t, u \in Threads :
          (callers[t].at # "idle" /\ callers[u].at # "idle") => t = u
    /\ \A i, k \in 1..Len(trace) :
          (i < k /\ trace[i].call = trace[k].call)
              => \A j \in i..k : trace[j].call = trace[i].call
    /\ \A i \in 1..Len(trace) : trace[i].op = "func" => trace[i].attested
    /\ Len(completed) <= Len(acquired)
    /\ \A n \in 1..Len(completed) : completed[n] = acquired[n]

\* Thread t1's call was deattested by an UNAUTHENTICATED failure and has
\* completed; thread t2, which took the mutex after it, has attested again
\* and is about to run func.
C25_Witness ==
    /\ completed = <<1>>
    /\ acquired = <<1, 2>>
    /\ callers["t1"].call = 1
    /\ callers["t2"].at = "func"
    /\ Len(trace) = 4
    /\ trace[3].op = "deattest"
    /\ trace[4].op = "attest" /\ trace[4].call = 2
    /\ attested

(* ------------------------------------------------------------------ *)
(* The retryable operations of a connection                            *)
(* (RetryableBlockchainConnection, RetryableUserTxConnection)          *)
(* ------------------------------------------------------------------ *)
MaxDelays == 3

\* The retryable operations.
Operations == {"fetch_blocks", "fetch_block_ids", "fetch_block_height", "propose_tx"}

\* The delays of a schedule, in units of time.
Durations == {1, 2}

\* What one attempt returns: success, a transient error, or a permanent one.
TransientErrors == {"UNAUTHENTICATED", "UNAVAILABLE"}
PermanentErrors == {"InvalidArgument", "TombstoneBlockExceeded", "ContainsSpentKeyImage"}
AttemptResults == {"Ok"} \cup TransientErrors \cup PermanentErrors

\* A wrapper that retries after every error.
should_retry_every_error(r) == r # "Ok"

\* An attempt is made again only after a transient error.
should_retry(r) == r \in TransientErrors

\* A wrapper that goes on when the schedule has no delay left.
has_next_always(iterator) == TRUE

\* retry_iterator.next() yields a delay while the schedule is not exhausted.
has_next(iterator) == iterator # <<>>

\* The schedule behind the delay just taken.
advance(iterator) == IF iterator = <<>> THEN <<>> ELSE Tail(iterator)

\* What the operations of the retry wrappers leave alone.
outside_retry ==
    <<core_vars, manager_vars, lock_vars, network_vars, tombstone_checks, mutexes, scp_vars>>

InitRetrySpec ==
    /\ pc = "idle"
    /\ InitConnection
    /\ InitCheck
    /\ InitSubstrate
    /\ tx_contexts = <<>>
    /\ max_elements = 0
    /\ allowed_hashes = <<>>
    /\ num_blocks = 1
    /\ ledger_key_images = {}
    /\ ledger_public_keys = {}
    /\ fault = NoFault
    /\ context = NoContext
    /\ result = "None"

\* A caller invokes a retryable operation with a finite retry schedule.
CallRetryable ==
    /\ pc \in {"idle", "returned"}
    /\ \E op \in Operations,
          schedule \in UNION {[1..k -> Durations] : k \in 0..MaxDelays} :
        /\ operation' = op
        /\ delays' = schedule
        /\ retry_iterator' = schedule
    /\ outcomes' = <<>>
    /\ retry_result' = "none"
    /\ pc' = "attempting"
    /\ UNCHANGED outside_retry

\* One attempt of the operation on the connection: it succeeds, or fails
\* with an error that is retried while the schedule has a delay left.
Attempt ==
    /\ pc = "attempting"
    /\ \E r \in AttemptResults :
        /\ outcomes' = Append(outcomes, r)
        /\ IF should_retry(r) /\ has_next(retry_iterator)
           THEN pc' = "sleeping" /\ retry_result' = retry_result
           ELSE pc' = "returned" /\ retry_result' = r
    /\ UNCHANGED <<operation, delays, retry_iterator, outside_retry>>

\* The wrapper takes the next delay from the schedule and sleeps for it.
Sleep ==
    /\ pc = "sleeping"
    /\ retry_iterator' = advance(retry_iterator)
    /\ pc' = "attempting"
    /\ UNCHANGED <<operation, delays, outcomes, retry_result, outside_retry>>

NextRetry == CallRetryable \/ Attempt \/ Sleep

SpecRetry == InitRetrySpec /\ [][NextRetry]_vars

\* C26: a retryable operation called with k delays makes at most k + 1
\* attempts: each attempt after the first has taken one delay from the
\* schedule, and when every attempt failed with a transient error the
\* operation returns that failure after exactly k + 1 attempts.
C26_BoundedAttempts ==
    /\ Len(outcomes) <= Len(delays) + 1
    /\ pc = "attempting" => Len(outcomes) + Len(retry_iterator) = Len(delays)
    /\ pc = "sleeping" => Len(outcomes) + Len(retry_iterator) = Len(delays) + 1
    /\ (/\ pc = "returned"
        /\ \A i \in 1..Len(outcomes) : outcomes[i] \in {"UNAUTHENTICATED", "UNAVAILABLE"})
          => /\ Len(outcomes) = Len(delays) + 1
             /\ retry_iterator = <<>>
             /\ retry_result \in {"UNAUTHENTICATED", "UNAVAILABLE"}

\* propose_tx with three delays has failed four times with a transient
\* error and returned the failure.
C26_Witness ==
    /\ pc = "returned"
    /\ operation = "propose_tx"
    /\ Len(delays) = 3
    /\ Len(outcomes) = 4
    /\ retry_result = "UNAVAILABLE"

\* C27: only the last attempt may be a success or a permanent error, and
\* the operation returns what the last attempt returned; an attempt that
\* failed with a transient error, UNAUTHENTICATED included, is followed by
\* another attempt as long as the schedule has a delay left.
C27_StopsAtFirstFinalResult ==
    /\ \A i \in 1..Len(outcomes) :
          i < Len(outcomes) => outcomes[i] \in {"UNAUTHENTICATED", "UNAVAILABLE"}
    /\ \A i \in 1..Len(outcomes) :
          outcomes[i] \in {"Ok", "InvalidArgument", "TombstoneBlockExceeded",
                           "ContainsSpentKeyImage"}
              => (i = Len(outcomes) /\ pc = "returned" /\ retry_result = outcomes[i])
    /\ pc = "returned" =>
          /\ outcomes # <<>>
          /\ retry_result = outcomes[Len(outcomes)]
          /\ retry_result \in {"UNAUTHENTICATED", "UNAVAILABLE"}
                => Len(outcomes) = Len(delays) + 1

\* fetch_blocks failed with UNAUTHENTICATED, slept, and succeeded at the
\* second attempt with a delay still left in the schedule.
C27_Witness ==
    /\ pc = "returned"
    /\ operation = "fetch_blocks"
    /\ outcomes = <<"UNAUTHENTICATED", "Ok">>
    /\ retry_result = "Ok"
    /\ Len(retry_iterator) = 1

(* ------------------------------------------------------------------ *)
(* combine and the ledger                                              *)
(* ------------------------------------------------------------------ *)

\* A block is appended that spends the key images and publishes the output
\* public keys of one of the candidates.
SpendCandidate ==
    /\ pc = "combined"
    /\ num_blocks' = num_blocks + 1
    /\ \E n \in 1..Len(tx_contexts) :
        /\ ledger_key_images' = ledger_key_images \cup tx_contexts[n].key_images
        /\ ledger_public_keys' = ledger_public_keys \cup tx_contexts[n].output_public_keys
    /\ pc' = "spent"
    /\ UNCHANGED <<combine_vars, valid_vars, conn_vars, check_vars, substrate_vars>>

\* The caller combines the same candidates with the same bound again.
Recombine ==
    /\ pc = "spent"
    /\ allowed_hashes' = combine(tx_contexts, max_elements)
    /\ pc' = "recombined"
    /\ UNCHANGED <<tx_contexts, max_elements, ledger_vars, valid_vars, conn_vars,
                   check_vars, substrate_vars>>

NextCombineLedger == Nominate \/ Combine \/ SpendCandidate \/ Recombine

SpecCombineLedger == InitCombine /\ [][NextCombineLedger]_vars

\* C28: combine called again with the same candidates and bound, in a
\* ledger that has since spent a candidate's key images and published its
\* output public keys, returns the list it returned before.
C28_LedgerIndependent ==
    [][pc = "spent" => allowed_hashes' = allowed_hashes]_vars

\* combine has been called again after the ledger spent a key image of a
\* candidate it accepts, and has accepted that candidate again.
C28_Witness ==
    /\ pc = "recombined"
    /\ \E n \in 1..Len(tx_contexts) :
        /\ tx_contexts[n].key_images \cap ledger_key_images # {}
        /\ \E m \in 1..Len(allowed_hashes) : allowed_hashes[m] = tx_hash(tx_contexts[n])

(* ------------------------------------------------------------------ *)
(* The simulated network: build_and_test over an SCPNetwork whose node  *)
(* threads externalize blocks while the harness pushes values and reads *)
(* the ledgers.                                                        *)
(* ------------------------------------------------------------------ *)
MaxValuesToSubmit == 2

MaxLedgerBlocks == 2

\* The strings a value can be; the harness generates the first
\* values_to_submit of them, the others are values nobody submitted.
Strings == <<"a", "b", "c">>

\* The blocks a node can externalize.
Blocks ==
    {<<Strings[k]>> : k \in 1..Len(Strings)}
        \cup {<<Strings[k], Strings[k + 1]>> : k \in 1..(Len(Strings) - 1)}

TestOptions ==
    [values_to_submit : 0..MaxValuesToSubmit, submit_in_parallel : BOOLEAN]

\* iter().flatten(): the values of a ledger, block after block.
RECURSIVE flatten(_)
flatten(ledger) ==
    IF ledger = <<>> THEN <<>> ELSE Head(ledger) \o flatten(Tail(ledger))

\* collect::<HashSet<String>>()
hashset(vec) == {vec[k] : k \in 1..Len(vec)}

\* SCPNetwork::get_ledger(node_id)
get_ledger(node_id) == node_ledgers[node_id]

\* SCPNetwork::get_ledger_size(node_id): the number of externalized values.
get_ledger_size(node_id) == Len(flatten(node_ledgers[node_id]))

\* The value check accepting a ledger that holds every submitted value,
\* whatever else it holds.
wrong_values_missing_only(submitted, ledger) == hashset(submitted) \ hashset(flatten(ledger)) # {}

\* values_hashset != externalized_values_hashset
wrong_values(submitted, ledger) == hashset(submitted) # hashset(flatten(ledger))

\* The comparison of the block counts alone.
compare_ledgers_count_only(first, other) == IF Len(first) # Len(other) THEN "test failed due to ledgers having different block count" ELSE ""

\* The block-by-block comparison of another node's ledger with the first
\* node's: the panic message, or "" when they match.
compare_ledgers(first, other) ==
    IF Len(first) # Len(other)
    THEN "test failed due to ledgers having different block count"
    ELSE IF \E block_index \in 1..Len(first) : first[block_index] # other[block_index]
         THEN "test failed due to ledgers having different block content"
         ELSE ""

outside_network ==
    <<core_vars, manager_vars, lock_vars, retry_vars, tombstone_checks, mutexes, scp_vars>>

\* SCPNetwork::new, and the values generated: every ledger is empty.
InitNetworkSpec ==
    /\ pc = "start"
    /\ InitConnection
    /\ InitCheck
    /\ InitManager
    /\ InitLock
    /\ InitRetry
    /\ tombstone_checks = <<>>
    /\ mutexes = <<>>
    /\ InitScp
    /\ tx_contexts = <<>>
    /\ max_elements = 0
    /\ allowed_hashes = <<>>
    /\ num_blocks = 1
    /\ ledger_key_images = {}
    /\ ledger_public_keys = {}
    /\ fault = NoFault
    /\ context = NoContext
    /\ result = "None"
    /\ test_options \in TestOptions
    /\ values = [k \in 1..test_options.values_to_submit |-> Strings[k]]
    /\ pushed = 0
    /\ node_index = 1
    /\ node_ledgers = [n \in NodeIDs |-> <<>>]
    /\ sent_values = [n \in NodeIDs |-> <<>>]
    /\ checked_ledgers = [n \in NodeIDs |-> <<>>]
    /\ first_node_ledger = <<>>
    /\ other_node_ledgers = [n \in NodeIDs |-> <<>>]
    /\ panic = ""

\* "check that all ledgers start empty"
AssertEmpty ==
    /\ pc = "start"
    /\ IF \A n \in NodeIDs : get_ledger_size(n) = 0
       THEN /\ pc' = IF test_options.values_to_submit = 0 THEN "wait" ELSE "push"
            /\ panic' = panic
       ELSE /\ pc' = "panicked"
            /\ panic' = "assertion failed"
    /\ UNCHANGED <<test_options, values, pushed, node_index, node_ledgers, sent_values,
                   checked_ledgers, first_node_ledger, other_node_ledgers>>
    /\ UNCHANGED outside_network

\* One iteration of the push loop: values[i] goes to every node, or to node
\* i % nodes.len().
PushValue ==
    /\ pc = "push"
    /\ LET value == values[pushed + 1]
           n == (pushed % Len(node_ids)) + 1
       IN  sent_values' =
               IF test_options.submit_in_parallel
               THEN [m \in NodeIDs |-> Append(sent_values[m], value)]
               ELSE [sent_values EXCEPT ![node_ids[n]] = Append(@, value)]
    /\ pushed' = pushed + 1
    /\ pc' = IF pushed + 1 = test_options.values_to_submit THEN "wait" ELSE "push"
    /\ UNCHANGED <<test_options, values, node_index, node_ledgers, checked_ledgers,
                   first_node_ledger, other_node_ledgers, panic>>
    /\ UNCHANGED outside_network

\* A node thread externalizes a block and pushes it to its ledger.
Externalize(n) ==
    /\ pc \notin {"passed", "panicked"}
    /\ \E m \in NodeIDs : sent_values[m] # <<>>
    /\ Len(node_ledgers[n]) < MaxLedgerBlocks
    /\ \E block \in Blocks :
        node_ledgers' = [node_ledgers EXCEPT ![n] = Append(@, block)]
    /\ UNCHANGED <<pc, test_options, values, pushed, node_index, sent_values,
                   checked_ledgers, first_node_ledger, other_node_ledgers, panic>>
    /\ UNCHANGED outside_network

\* The deadline passes while the harness waits for a node.
Timeout ==
    /\ pc = "wait"
    /\ pc' = "panicked"
    /\ panic' = "test failed due to timeout"
    /\ UNCHANGED <<test_options, values, pushed, node_index, node_ledgers, sent_values,
                   checked_ledgers, first_node_ledger, other_node_ledgers>>
    /\ UNCHANGED outside_network

\* The wait loop finds the node's ledger large enough and breaks.
PollLedgerSize ==
    /\ pc = "wait"
    /\ get_ledger_size(node_ids[node_index]) >= test_options.values_to_submit
    /\ pc' = "check"
    /\ UNCHANGED network_vars
    /\ UNCHANGED outside_network

\* The value check of the node the wait loop has just left.
CheckValues ==
    /\ pc = "check"
    /\ LET node_id == node_ids[node_index]
           ledger == get_ledger(node_id)
       IN  /\ checked_ledgers' = [checked_ledgers EXCEPT ![node_id] = ledger]
           /\ IF wrong_values(values, ledger)
              THEN /\ pc' = "panicked"
                   /\ panic' = "test failed due to wrong values being externalized"
                   /\ node_index' = node_index
              ELSE /\ pc' = IF node_index = Len(node_ids) THEN "first" ELSE "wait"
                   /\ node_index' = IF node_index = Len(node_ids) THEN 1 ELSE node_index + 1
                   /\ panic' = panic
    /\ UNCHANGED <<test_options, values, pushed, node_ledgers, sent_values,
                   first_node_ledger, other_node_ledgers>>
    /\ UNCHANGED outside_network

\* let first_node_ledger = simulation.get_ledger(&node_ids[0]);
ReadFirstLedger ==
    /\ pc = "first"
    /\ first_node_ledger' = get_ledger(node_ids[1])
    /\ node_index' = 2
    /\ pc' = IF Len(node_ids) < 2 THEN "passed" ELSE "compare"
    /\ UNCHANGED <<test_options, values, pushed, node_ledgers, sent_values,
                   checked_ledgers, other_node_ledgers, panic>>
    /\ UNCHANGED outside_network

\* One iteration of the comparison loop over node_ids.iter().skip(1).
CompareLedgers ==
    /\ pc = "compare"
    /\ LET node_id == node_ids[node_index]
           other_node_ledger == get_ledger(node_id)
           message == compare_ledgers(first_node_ledger, other_node_ledger)
       IN  /\ other_node_ledgers' = [other_node_ledgers EXCEPT ![node_id] = other_node_ledger]
           /\ panic' = message
           /\ IF message # ""
              THEN /\ pc' = "panicked"
                   /\ node_index' = node_index
              ELSE /\ pc' = IF node_index = Len(node_ids) THEN "passed" ELSE "compare"
                   /\ node_index' = IF node_index = Len(node_ids) THEN node_index ELSE node_index + 1
    /\ UNCHANGED <<test_options, values, pushed, node_ledgers, sent_values,
                   checked_ledgers, first_node_ledger>>
    /\ UNCHANGED outside_network

NextNetwork ==
    \/ AssertEmpty
    \/ PushValue
    \/ \E n \in NodeIDs : Externalize(n)
    \/ Timeout
    \/ PollLedgerSize
    \/ CheckValues
    \/ ReadFirstLedger
    \/ CompareLedgers

SpecNetwork == InitNetworkSpec /\ [][NextNetwork]_vars

\* C29: build_and_test completes without panic only if the ledgers it read
\* for the comparison, after every node had externalized all submitted
\* values, are identical block for block: every other node's ledger has as
\* many blocks as the first node's and the same block at every index.
C29_LedgersIdentical ==
    pc = "passed" =>
        \A k \in 2..Len(node_ids) :
            LET other == other_node_ledgers[node_ids[k]]
            IN  /\ Len(other) = Len(first_node_ledger)
                /\ \A block_index \in 1..Len(first_node_ledger) :
                    other[block_index] = first_node_ledger[block_index]

\* The harness has completed over ledgers of two blocks each.
C29_Witness ==
    /\ pc = "passed"
    /\ Len(first_node_ledger) = 2
    /\ \A k \in 2..Len(node_ids) : Len(other_node_ledgers[node_ids[k]]) = 2

\* C30: build_and_test completes without panic only if, for every node, the
\* set of values in the ledger it read for the value check equals the set of
\* submitted values: every submitted value appears at least once, a value may
\* appear in several slots, and no value that was not submitted appears.
C30_ExactlySubmittedValues ==
    pc = "passed" =>
        \A n \in NodeIDs :
            /\ \A k \in 1..Len(values) :
                \E j \in 1..Len(flatten(checked_ledgers[n])) :
                    flatten(checked_ledgers[n])[j] = values[k]
            /\ \A j \in 1..Len(flatten(checked_ledgers[n])) :
                \E k \in 1..Len(values) : flatten(checked_ledgers[n])[j] = values[k]

\* The harness has completed over a ledger that holds a submitted value in
\* two slots.
C30_Witness ==
    /\ pc = "passed"
    /\ test_options.values_to_submit > 0
    /\ \E n \in NodeIDs :
        Len(flatten(checked_ledgers[n])) > Cardinality(hashset(flatten(checked_ledgers[n])))

(* ------------------------------------------------------------------ *)
(* The tombstone check of one context while the ledger grows.          *)
(* ------------------------------------------------------------------ *)
MaxTombstoneChecks == 3

outside_tombstone ==
    <<combine_vars, conn_vars, check_vars, manager_vars, lock_vars, retry_vars, network_vars,
      mutexes, scp_vars>>

InitTombstone ==
    /\ pc = "idle"
    /\ num_blocks \in 0..MaxBlocks
    /\ ledger_key_images = {}
    /\ ledger_public_keys = {}
    /\ fault = NoFault
    /\ \E tombstone_block \in Tombstones :
        context = [NoContext EXCEPT !.tombstone_block = tombstone_block]
    /\ result = "None"
    /\ tx_contexts = <<>>
    /\ max_elements = 0
    /\ allowed_hashes = <<>>
    /\ InitConnection
    /\ InitCheck
    /\ InitSubstrate

\* Another block is written to the ledger.
GrowLedger ==
    /\ num_blocks < MaxBlocks
    /\ num_blocks' = num_blocks + 1
    /\ UNCHANGED <<pc, ledger_key_images, ledger_public_keys, valid_vars, tombstone_checks>>
    /\ UNCHANGED outside_tombstone

\* validate_tombstone(current_block_index, context.tombstone_block()) on the
\* block count of the ledger as it stands.
ValidateTombstone ==
    /\ Len(tombstone_checks) < MaxTombstoneChecks
    /\ LET current_block_index == num_blocks
           outcome == validate_tombstone(current_block_index, context.tombstone_block)
       IN  /\ result' = outcome
           /\ tombstone_checks' =
                  Append(tombstone_checks,
                         [current_block_index |-> current_block_index, outcome |-> outcome])
    /\ pc' = "checked"
    /\ UNCHANGED <<ledger_vars, fault, context>>
    /\ UNCHANGED outside_tombstone

NextTombstone == GrowLedger \/ ValidateTombstone

SpecTombstone == InitTombstone /\ [][NextTombstone]_vars

\* C32 as stated: a context that passes the tombstone check under a
\* current_block_index passes it under every larger one.
C32_PassesUnderLarger ==
    \A j, k \in 1..Len(tombstone_checks) :
        (/\ tombstone_checks[j].outcome = "Ok"
         /\ tombstone_checks[k].current_block_index > tombstone_checks[j].current_block_index)
            => tombstone_checks[k].outcome = "Ok"

\* C32: the tombstone block is a ceiling. A context that fails the tombstone
\* check under a current_block_index fails it under every larger one, and a
\* context that passes it under a current_block_index passes it under every
\* smaller one.
C32_FailsUnderLarger ==
    \A j, k \in 1..Len(tombstone_checks) :
        tombstone_checks[k].current_block_index > tombstone_checks[j].current_block_index =>
            /\ tombstone_checks[j].outcome = "TombstoneBlockExceeded"
                  => tombstone_checks[k].outcome = "TombstoneBlockExceeded"
            /\ tombstone_checks[k].outcome = "Ok" => tombstone_checks[j].outcome = "Ok"

\* One context has been checked under three growing block indices: it passed
\* under the first two and had expired under the third.
C32_Witness ==
    /\ Len(tombstone_checks) = 3
    /\ tombstone_checks[1].current_block_index < tombstone_checks[2].current_block_index
    /\ tombstone_checks[2].current_block_index < tombstone_checks[3].current_block_index
    /\ tombstone_checks[1].outcome = "Ok"
    /\ tombstone_checks[2].outcome = "Ok"
    /\ tombstone_checks[3].outcome = "TombstoneBlockExceeded"

(* ------------------------------------------------------------------ *)
(* Calls on the connections of a registry: threads get their            *)
(* SyncConnection handles from the manager and call through them.       *)
(* ------------------------------------------------------------------ *)

\* Connections that all lock one mutex, that of the registry.
mutex_of_registry(conn) == 1

\* The mutex a SyncConnection locks: each connection has its own.
mutex_of(conn) == conn

outside_peers ==
    <<core_vars, pc, given, peer_connections, iteration_order, handles, mutex, acquired,
      completed, retry_vars, network_vars, tombstone_checks, scp_vars>>

\* A manager built from connections to distinct peers, no call under way.
InitPeers ==
    /\ pc = "built"
    /\ given \in [1..MaxConnections -> Uris]
    /\ ~new(given).panic
    /\ peer_connections = new(given).map
    /\ iteration_order \in orders(keys(new(given).map))
    /\ handles = <<1>>
    /\ readers = 0
    /\ queries = [t \in Threads |-> NoQuery]
    /\ mutexes = [c \in 1..Len(given) |-> "free"]
    /\ InitLock
    /\ InitRetry
    /\ InitNetwork
    /\ tombstone_checks = <<>>
    /\ InitScp
    /\ InitConnection
    /\ InitCheck
    /\ tx_contexts = <<>>
    /\ max_elements = 0
    /\ allowed_hashes = <<>>
    /\ num_blocks = 1
    /\ ledger_key_images = {}
    /\ ledger_public_keys = {}
    /\ fault = NoFault
    /\ context = NoContext
    /\ result = "None"

\* A thread that is in no call queries the manager.
Query(t) ==
    /\ callers[t].at = "idle"
    /\ Read(t)

\* Thread t calls through the handle conn it got from the manager: it takes
\* the mutex of that connection, or waits while another thread holds it.
LockConnection(t, conn) ==
    /\ callers[t].at = "idle"
    /\ queries[t].at = "answered"
    /\ \E k \in 1..Len(queries[t].conns) : queries[t].conns[k] = conn
    /\ can_lock(mutexes[mutex_of(conn)])
    /\ mutexes' = [mutexes EXCEPT ![mutex_of(conn)] = t]
    /\ callers' = [callers EXCEPT ![t] = [at |-> "calling", call |-> conn]]
    /\ UNCHANGED <<readers, queries, outside_peers>>

\* The call of thread t returns and its guard releases the mutex.
UnlockConnection(t) ==
    /\ callers[t].at = "calling"
    /\ mutexes' = [mutexes EXCEPT ![mutex_of(callers[t].call)] = "free"]
    /\ callers' = [callers EXCEPT ![t] = [at |-> "idle", call |-> 0]]
    /\ UNCHANGED <<readers, queries, outside_peers>>

NextPeers ==
    \/ \E t \in Threads : Query(t)
    \/ \E t \in Threads : Answer(t)
    \/ \E t \in Threads : \E conn \in 1..MaxConnections : LockConnection(t, conn)
    \/ \E t \in Threads : UnlockConnection(t)

SpecPeers == InitPeers /\ [][NextPeers]_vars

\* C36: the registry read lock is held only while a query copies out of the
\* map, never by a thread that is in a call; and while a thread is in a call
\* on one connection, another thread that is in no call can query the
\* registry and can call through every handle it holds of another connection.
C36_CallsOutsideRegistryLock ==
    /\ readers = Cardinality({t \in Threads : queries[t].at = "reading"})
    /\ \A t \in Threads : callers[t].at = "calling" => queries[t].at # "reading"
    /\ \A t, u \in Threads :
          (t # u /\ callers[t].at = "calling" /\ callers[u].at = "idle") =>
              /\ queries[u].at # "reading" => ENABLED Query(u)
              /\ queries[u].at = "answered" =>
                    \A k \in 1..Len(queries[u].conns) :
                        queries[u].conns[k] # callers[t].call
                            => ENABLED LockConnection(u, queries[u].conns[k])

\* One thread is in a call on one connection while the other is in a call on
\* another connection and no query holds the read lock.
C36_Witness ==
    /\ callers["t1"].at = "calling"
    /\ callers["t2"].at = "calling"
    /\ callers["t1"].call # callers["t2"].call
    /\ readers = 0

(* ------------------------------------------------------------------ *)
(* SCPNetwork: node threads that broadcast to their peers under the     *)
(* nodes_map mutex, and stop_all.                                      *)
(* ------------------------------------------------------------------ *)
MaxBroadcasts == 2

\* The nodes a network is built from, in the order of network_config.nodes.
ring == <<"n1", "n2", "n3", "n4">>

\* The node after n in a cyclic topology of nodes.
next_node(n, nodes) ==
    LET index(m) == CHOOSE k \in 1..Len(ring) : ring[k] = m
        later == {m \in nodes : index(m) > index(n)}
        first(ms) == CHOOSE m \in ms : \A o \in ms : index(m) <= index(o)
    IN  IF later # {} THEN first(later) ELSE first(nodes)

\* The network configurations over nodes: each node has every other node as
\* its peer, or its neighbour in the ring.
network_configs(nodes) ==
    {config \in [nodes -> SUBSET nodes] :
        \A n \in nodes : config[n] \in {nodes \ {n}, {next_node(n, nodes)}}}

\* A stop_all that holds the nodes_map mutex until it returns.
lock_after_stops_held(holder) == holder

\* drop(nodes_map) behind the loop that sends the stops.
lock_after_stops(holder) == "free"

outside_scp ==
    <<core_vars, pc, manager_vars, lock_vars, retry_vars, network_vars, tombstone_checks,
      mutexes>>

\* SCPNetwork::new: a thread per node, every peer set naming other nodes of
\* the network.
InitBroadcast ==
    /\ pc = "idle"
    /\ peers \in network_configs({"n1", "n2", "n3", "n4"})
    /\ InitThreads({"n1", "n2", "n3", "n4"})
    /\ InitManager
    /\ InitLock
    /\ InitRetry
    /\ InitNetwork
    /\ tombstone_checks = <<>>
    /\ mutexes = <<>>
    /\ InitConnection
    /\ InitCheck
    /\ tx_contexts = <<>>
    /\ max_elements = 0
    /\ allowed_hashes = <<>>
    /\ num_blocks = 1
    /\ ledger_key_images = {}
    /\ ledger_public_keys = {}
    /\ fault = NoFault
    /\ context = NoContext
    /\ result = "None"

\* The thread of node n calls its broadcast callback with a new message.
BeginBroadcast(n) ==
    /\ node_threads[n].at = "running"
    /\ Len(broadcasts) < MaxBroadcasts
    /\ broadcasts' = Append(broadcasts, n)
    /\ node_threads' = [node_threads EXCEPT ![n] =
                           [at |-> "waiting",
                            msg |-> [sender |-> n, seq |-> Len(broadcasts) + 1],
                            remaining |-> {}]]
    /\ UNCHANGED <<peers, nodes_map_lock, inboxes, processed, stop_all, outside_scp>>

\* broadcast_msg: nodes_map.lock()
AcquireNodesMap(n) ==
    /\ node_threads[n].at = "waiting"
    /\ can_lock(nodes_map_lock)
    /\ nodes_map_lock' = n
    /\ node_threads' = [node_threads EXCEPT ![n].at = "broadcasting",
                                            ![n].remaining = peers[n]]
    /\ UNCHANGED <<peers, inboxes, processed, broadcasts, stop_all, outside_scp>>

\* broadcast_msg: one iteration of the loop over peers, in the order the
\* HashSet iterates.
SendMsg(n) ==
    /\ node_threads[n].at = "broadcasting"
    /\ \E peer_id \in node_threads[n].remaining :
        /\ inboxes' = [inboxes EXCEPT ![peer_id] = Append(@, node_threads[n].msg)]
        /\ node_threads' = [node_threads EXCEPT ![n].remaining = @ \ {peer_id}]
    /\ UNCHANGED <<peers, nodes_map_lock, processed, broadcasts, stop_all, outside_scp>>

\* broadcast_msg returns and its guard releases nodes_map.
EndBroadcast(n) ==
    /\ node_threads[n].at = "broadcasting"
    /\ node_threads[n].remaining = {}
    /\ nodes_map_lock' = "free"
    /\ node_threads' = [node_threads EXCEPT ![n] =
                           [at |-> "running", msg |-> NoMsg, remaining |-> {}]]
    /\ UNCHANGED <<peers, inboxes, processed, broadcasts, stop_all, outside_scp>>

\* The thread of node n takes the next item of its inbox; on a stop it
\* leaves its loop.
Receive(n) ==
    /\ node_threads[n].at = "running"
    /\ processed[n] < Len(inboxes[n])
    /\ processed' = [processed EXCEPT ![n] = @ + 1]
    /\ node_threads' =
           IF inboxes[n][processed[n] + 1] = StopTrigger
           THEN [node_threads EXCEPT ![n].at = "stopped"]
           ELSE node_threads
    /\ UNCHANGED <<peers, nodes_map_lock, inboxes, broadcasts, stop_all, outside_scp>>

\* stop_all is called.
CallStopAll ==
    /\ stop_all.at = "idle"
    /\ stop_all' = [stop_all EXCEPT !.at = "waiting"]
    /\ UNCHANGED <<peers, nodes_map_lock, inboxes, processed, node_threads, broadcasts,
                   outside_scp>>

\* stop_all: self.nodes_map.lock()
StopAllLock ==
    /\ stop_all.at = "waiting"
    /\ can_lock(nodes_map_lock)
    /\ nodes_map_lock' = "stop_all"
    /\ stop_all' = [stop_all EXCEPT !.at = "stopping", !.remaining = ScpNodes]
    /\ UNCHANGED <<peers, inboxes, processed, node_threads, broadcasts, outside_scp>>

\* stop_all: one iteration of the loop over nodes_map: node.send_stop().
SendStop ==
    /\ stop_all.at = "stopping"
    /\ \E node_id \in stop_all.remaining :
        /\ inboxes' = [inboxes EXCEPT ![node_id] = Append(@, StopTrigger)]
        /\ stop_all' = [stop_all EXCEPT !.remaining = @ \ {node_id},
                                        !.node_ids = Append(@, node_id)]
    /\ UNCHANGED <<peers, nodes_map_lock, processed, node_threads, broadcasts, outside_scp>>

\* stop_all: drop(nodes_map), behind the loop.
StopAllUnlock ==
    /\ stop_all.at = "stopping"
    /\ stop_all.remaining = {}
    /\ nodes_map_lock' = lock_after_stops(nodes_map_lock)
    /\ stop_all' = [stop_all EXCEPT !.at = "joining"]
    /\ UNCHANGED <<peers, inboxes, processed, node_threads, broadcasts, outside_scp>>

\* stop_all: join() of the next thread in node_ids returns once that thread
\* has left its loop.
Join ==
    /\ stop_all.at = "joining"
    /\ LET node_id == stop_all.node_ids[Cardinality(stop_all.joined) + 1] IN
        /\ node_threads[node_id].at = "stopped"
        /\ stop_all' = [stop_all EXCEPT
                           !.joined = @ \cup {node_id},
                           !.at = IF Cardinality(stop_all.joined) + 1 = Len(stop_all.node_ids)
                                  THEN "done" ELSE "joining"]
    /\ UNCHANGED <<peers, nodes_map_lock, inboxes, processed, node_threads, broadcasts,
                   outside_scp>>

NextBroadcast ==
    \/ \E n \in ScpNodes : BeginBroadcast(n)
    \/ \E n \in ScpNodes : AcquireNodesMap(n)
    \/ \E n \in ScpNodes : SendMsg(n)
    \/ \E n \in ScpNodes : EndBroadcast(n)

SpecBroadcast == InitBroadcast /\ [][NextBroadcast]_vars

\* The number of times msg is in an inbox, and its place there.
count(inbox, msg) == Cardinality({k \in 1..Len(inbox) : inbox[k] = msg})
place(inbox, msg) == CHOOSE k \in 1..Len(inbox) : inbox[k] = msg

\* The k-th broadcast begun.
broadcast(k) == [sender |-> broadcasts[k], seq |-> k]

\* The k-th broadcast has not returned yet.
under_way(k) == node_threads[broadcasts[k]].msg = broadcast(k)

\* C37: in a network whose peer sets name nodes of the network, a broadcast
\* hands its message to no node outside the sender's peer set, to no node
\* twice and, once it has returned, to every peer exactly once; it hands
\* messages over only while it holds the nodes_map mutex; and every two
\* nodes that have received the same two broadcasts have received them in
\* the same order.
C37_BroadcastUnderLock ==
    /\ \A k \in 1..Len(broadcasts) :
          /\ \A p \in ScpNodes :
                /\ count(inboxes[p], broadcast(k)) <= 1
                /\ p \notin peers[broadcasts[k]] => count(inboxes[p], broadcast(k)) = 0
          /\ ~under_way(k) =>
                \A p \in peers[broadcasts[k]] : count(inboxes[p], broadcast(k)) = 1
          /\ (under_way(k) /\ node_threads[broadcasts[k]].at = "waiting") =>
                \A p \in ScpNodes : count(inboxes[p], broadcast(k)) = 0
    /\ \A n \in ScpNodes : node_threads[n].at = "broadcasting" => nodes_map_lock = n
    /\ \A j, k \in 1..Len(broadcasts) :
          \A p, q \in ScpNodes :
              (/\ count(inboxes[p], broadcast(j)) = 1 /\ count(inboxes[p], broadcast(k)) = 1
               /\ count(inboxes[q], broadcast(j)) = 1 /\ count(inboxes[q], broadcast(k)) = 1)
                  => (place(inboxes[p], broadcast(j)) < place(inboxes[p], broadcast(k))
                        <=> place(inboxes[q], broadcast(j)) < place(inboxes[q], broadcast(k)))

\* Two nodes have broadcast, both broadcasts have returned, and two other
\* nodes are peers of both senders and hold both messages.
C37_Witness ==
    /\ Len(broadcasts) = 2
    /\ broadcasts[1] # broadcasts[2]
    /\ ~under_way(1)
    /\ ~under_way(2)
    /\ \E p, q \in ScpNodes \ {broadcasts[1], broadcasts[2]} :
          /\ p # q
          /\ \A r \in {p, q} :
                count(inboxes[r], broadcast(1)) = 1 /\ count(inboxes[r], broadcast(2)) = 1

(* ------------------------------------------------------------------ *)
(* stop_all while node threads broadcast.                               *)
(* ------------------------------------------------------------------ *)

\* The mesh and the cyclic topology over nodes.
topologies(nodes) ==
    {[n \in nodes |-> nodes \ {n}], [n \in nodes |-> {next_node(n, nodes)}]}

\* SCPNetwork::new over three nodes.
InitStopAll ==
    /\ pc = "idle"
    /\ peers \in topologies({"n1", "n2", "n3"})
    /\ InitThreads({"n1", "n2", "n3"})
    /\ InitManager
    /\ InitLock
    /\ InitRetry
    /\ InitNetwork
    /\ tombstone_checks = <<>>
    /\ mutexes = <<>>
    /\ InitConnection
    /\ InitCheck
    /\ tx_contexts = <<>>
    /\ max_elements = 0
    /\ allowed_hashes = <<>>
    /\ num_blocks = 1
    /\ ledger_key_images = {}
    /\ ledger_public_keys = {}
    /\ fault = NoFault
    /\ context = NoContext
    /\ result = "None"

NextStopAll ==
    \/ \E n \in ScpNodes : BeginBroadcast(n)
    \/ \E n \in ScpNodes : AcquireNodesMap(n)
    \/ \E n \in ScpNodes : SendMsg(n)
    \/ \E n \in ScpNodes : EndBroadcast(n)
    \/ \E n \in ScpNodes : Receive(n)
    \/ CallStopAll
    \/ StopAllLock
    \/ SendStop
    \/ StopAllUnlock
    \/ Join

\* Every thread that can take a step takes one: a thread waiting for the
\* nodes_map mutex gets it once it stays free, a broadcast goes through its
\* peers and returns, a running node thread takes what is in its inbox, and
\* stop_all goes on once it has been called.
FairThreads ==
    /\ \A n \in {"n1", "n2", "n3"} :
          /\ WF_vars(AcquireNodesMap(n))
          /\ WF_vars(SendMsg(n))
          /\ WF_vars(EndBroadcast(n))
          /\ WF_vars(Receive(n))
    /\ WF_vars(StopAllLock)
    /\ WF_vars(SendStop)
    /\ WF_vars(StopAllUnlock)
    /\ WF_vars(Join)

SpecStopAll == InitStopAll /\ [][NextStopAll]_vars /\ FairThreads

\* stop_all has returned with every node thread joined.
AllJoined ==
    /\ stop_all.at = "done"
    /\ stop_all.joined = ScpNodes
    /\ \A n \in ScpNodes : node_threads[n].at = "stopped"

\* C40: stop_all sends the stops while it holds the nodes_map mutex and joins
\* the threads only after it has released it; once called it returns with
\* every node thread joined, whatever broadcasts the node threads have under
\* way or are waiting to make.
C40_StopAllTerminates ==
    /\ [](stop_all.at = "stopping" => nodes_map_lock = "stop_all")
    /\ [](stop_all.at \in {"joining", "done"} => nodes_map_lock # "stop_all")
    /\ (stop_all.at = "waiting") ~> AllJoined

\* stop_all has returned, and a node that had been handed its stop was handed
\* a message afterwards: a broadcast waited for nodes_map while stop_all held
\* it, or began behind it.
C40_Witness ==
    /\ AllJoined
    /\ \E n \in ScpNodes :
          \E j, k \in 1..Len(inboxes[n]) :
              /\ j < k
              /\ inboxes[n][j] = StopTrigger
              /\ inboxes[n][k] # StopTrigger

====
